---- MODULE Spec2Model ----
(***************************************************************************)
(* Model of the credential pool and request scheduler of the collector:    *)
(* src/src/services/github/TokenManager.js, as instantiated by             *)
(* GitHubService for each worker.                                          *)
(*                                                                         *)
(* JavaScript runs each callback to completion, so one action of the model *)
(* is the code executed between two suspension points (an awaited network  *)
(* request or an awaited sleep).  Time is the value of Date.now() in ms.   *)
(***************************************************************************)
EXTENDS Integers, Sequences, FiniteSets, TLC

(***************************************************************************)
(* Bounds of the model.                                                    *)
(***************************************************************************)
MaxTokens == 2          \* pools of 1..MaxTokens credentials
MaxErrors == 4          \* a probe may fail while consecutiveErrors < MaxErrors
MaxCalls == 1           \* SpecConc: execute calls per caller
StartTime == 100000     \* Date.now() at construction
MaxTime == 162000       \* Spec: the clock stops advancing here
MaxTimeConc == 131000   \* SpecConc: the clock stops advancing here
MaxTimeLive == 100000   \* SpecLive: no execute call starts after this time
MaxTriggers == 2        \* SpecRuns: triggers, of the two workers together
PerPage == 2            \* items of a full search page (perPage: 100, scaled)
MaxPage == 2            \* pages requested per search cell (page <= 10, scaled)
NumCells == 2           \* (query, size range) cells of the code search
NumKeywords == 1        \* keywords of the repository search
BatchSize == 2          \* the largest configured batch size of the activity worker (scaled)
MaxBatches == 1         \* SpecRuns, SpecActivity, SpecPoll: non-empty batches per run
CountCap == 2           \* the counters "submitted", "seen" and "attempted" stop counting here
MaxTotal == 4           \* the totals of a run stop counting here
MaxContributors == 2    \* contributions in a stats response
MaxWeeks == 2           \* week entries of a contribution
MaxPolls == 1           \* the counter "polls" of 202 answers stops counting here
MaxActivityRuns == 1    \* SpecActivity: triggers of the activity worker
MaxGenCalls == 2        \* SpecRanges: calls of generateSizeRanges
MaxSize == 15000        \* SpecRanges: file sizes looked up in the ranges
MaxHealthCalls == 1     \* SpecHealth: getHealthStatus calls per TokenManager
MaxTimeHealth == 131000 \* SpecHealth: the clock stops advancing here
TickSet == {31000}                      \* amounts by which the clock advances
RemainingVals == {0, 1}                 \* "remaining" values a probe reports
ResetVals == {120, 150}                 \* "reset" values (epoch seconds) a probe reports

(***************************************************************************)
(* Program constants.                                                      *)
(***************************************************************************)
StaleMs == 60000        \* freshness window of a quota snapshot
LockPollMs == 100       \* poll period while rotationLock is set
ResetMarginMs == 1000   \* margin added to the wait for the earliest reset
CooldownMs == 60000     \* secondary rate limit cooldown
BackoffBaseMs == 2000   \* 5xx backoff base
UnhealthyAfter == 3     \* consecutive probe failures that mark a token unhealthy
CoreLimit == 5000       \* initial core quota
SearchLimit == 30       \* initial search quota
NoStatus == 0           \* an Error object without a status property
WeekSeconds == 604800   \* week = 60 * 60 * 24 * 7 (seconds)
ReferenceWeeks == 26    \* the activity window, in weeks
StatsDelayMs == 2000     \* the sleep before the stats request is issued again

Categories == {"core", "search"}
Workers == {"discovery", "activity"}    \* each worker owns one GitHubService, hence one TokenManager
Callers == {1, 2}                       \* concurrent execute() calls

VARIABLES
    tokens,         \* tokens[m][i]: the i-th token record of worker m's TokenManager
    currentIndex,   \* currentIndex[m]
    rotationLock,   \* rotationLock[m]
    now,            \* Date.now()
    worker,         \* worker[c]: the worker on whose behalf caller c runs
    pc,             \* pc[c]: the suspension point caller c is at
    frame,          \* frame[c]: the locals of caller c's execute/getBestToken
    lastSel,        \* lastSel[m]: tokenId returned by the latest getBestToken (-1: none yet)
    calls,          \* calls[c]: execute calls caller c has made (counted in SpecConc only)
    isRunning,      \* isRunning[w]: the isRunning flag of worker w
    processedRepos, \* the discovery worker's processedRepos (a Set of owner/name keys)
    rows,           \* rows[r]: rows of the repository table with repoId r
    repoTypes,      \* the repo type table: a set of <<repoId, type>>
    runs,           \* runs[w][t]: the run()/runBackfill() call made by trigger t of worker w
    closedSource,   \* the repoIds whose row has isClosedSource = true
    developers,     \* the usernames of the Developers table
    activities,     \* the Activities table: rows [repositoryId, developerId, date, commits]
    gen,            \* the generateSizeRanges() call in progress and what the last one returned
    health,         \* health[m]: the getHealthStatus() call on worker m's TokenManager
    batchSize       \* config.workers.developerFetch.batchSize

\* the state of the workers and of storage
runVars == <<isRunning, processedRepos, rows, repoTypes, runs>>

\* the tables the activity worker reads and writes, besides the repository table
dbVars == <<closedSource, developers, activities>>

vars == <<tokens, currentIndex, rotationLock, now, worker, pc, frame, lastSel, calls,
          isRunning, processedRepos, rows, repoTypes, runs,
          closedSource, developers, activities, gen, health, batchSize>>

NumTokens(m) == Cardinality(DOMAIN tokens[m])

(***************************************************************************)
(* Errors: {status, message} objects; "at" is the attempt that raised the  *)
(* error (its identity).  A message is the sequence of its words.          *)
(***************************************************************************)
NoError == [status |-> NoStatus, message |-> <<>>, at |-> -1]

PrimaryRateLimitError(a) ==
    [status |-> 403, message |-> <<"API", "rate", "limit", "exceeded">>, at |-> a]

SecondaryRateLimitError(a) ==
    [status |-> 403, message |-> <<"exceeded", "a", "secondary", "rate", "limit">>, at |-> a]

NotFoundError(a) == [status |-> 404, message |-> <<"Not", "Found">>, at |-> a]

ServerError(a) == [status |-> 500, message |-> <<"Server", "Error">>, at |-> a]

NoHealthyError(a) ==
    [status |-> NoStatus, message |-> <<"No", "healthy", "tokens", "available">>, at |-> a]

RequestErrors(a) ==
    {PrimaryRateLimitError(a), SecondaryRateLimitError(a), NotFoundError(a),
     ServerError(a)}

\* String.prototype.includes on word sequences
Includes(hay, needle) ==
    \E k \in 1..(Len(hay) - Len(needle) + 1) :
        SubSeq(hay, k, k + Len(needle) - 1) = needle

(***************************************************************************)
(* Token records and the quota probe (updateRateLimits).                   *)
(***************************************************************************)
\* (probedAt is a history field: Date.now() when rateLimits was last assigned
\*  from a GET /rate_limit response, 0 while they are the constructor's values)
InitialToken ==
    [isHealthy |-> TRUE, consecutiveErrors |-> 0, lastUsed |-> 0, probedAt |-> 0,
     rateLimits |-> [cat \in Categories |->
         [remaining |-> IF cat = "core" THEN CoreLimit ELSE SearchLimit, reset |-> 0]]]

\* response.data.resources of GET /rate_limit
\* (bounded: one reset time per response, and core reported with no more quota
\*  left than search)
Resources ==
    {[cat \in Categories |-> [remaining |-> rem[cat], reset |-> reset]] :
        rem \in {r \in [Categories -> RemainingVals] : r["core"] <= r["search"]},
        reset \in ResetVals}

\* the outcomes of the awaited GET /rate_limit
ProbeOutcomes ==
    {[ok |-> TRUE, resources |-> r] : r \in Resources}
        \cup {[ok |-> FALSE, resources |-> InitialToken.rateLimits]}

updateRateLimitsKeepsCount(token, probe) ==
    IF probe.ok
    THEN [token EXCEPT !.rateLimits = probe.resources, !.isHealthy = TRUE]
    ELSE [token EXCEPT !.consecutiveErrors = @ + 1,
                       !.isHealthy = IF token.consecutiveErrors + 1 >= UnhealthyAfter
                                     THEN FALSE ELSE @]

\* updateRateLimits once its request has settled
updateRateLimits(token, probe) ==
    IF probe.ok
    THEN [token EXCEPT !.rateLimits = probe.resources,
                       !.isHealthy = TRUE,
                       !.consecutiveErrors = 0]
    ELSE [token EXCEPT !.consecutiveErrors = @ + 1,
                       !.isHealthy = IF token.consecutiveErrors + 1 >= UnhealthyAfter
                                     THEN FALSE ELSE @]

\* updateRateLimits settling at time t, with the history field kept
Probed(token, probe, t) ==
    [updateRateLimits(token, probe) EXCEPT !.probedAt = IF probe.ok THEN t ELSE @]

\* the probe outcomes the model admits for a token (failures are capped)
ProbesFor(token) ==
    {p \in ProbeOutcomes : p.ok \/ token.consecutiveErrors < MaxErrors}

(***************************************************************************)
(* getBestToken: the round-robin scan (lines 116-165).  The scan runs      *)
(* synchronously until it returns a token, suspends on a probe, or runs    *)
(* off the end of the pool.  ScanFrom is the top of iteration i evaluated  *)
(* at clock t; its value says where the scan stops.                        *)
(***************************************************************************)
HasQuotaOrEmpty(rateLimit) == rateLimit.remaining >= 0

\* line 133 / 154: rateLimit.remaining > 0
HasQuota(rateLimit) == rateLimit.remaining > 0

\* line 127: now - token.lastUsed > 60000
IsStale(token, t) == t - token.lastUsed > StaleMs

ResetNeverPassed(rateLimit, t) == FALSE

\* line 151: rateLimit.reset * 1000 < now
ResetPassed(rateLimit, t) == rateLimit.reset * 1000 < t

RECURSIVE ScanFrom(_, _, _, _, _)
\* lines 131-164 of iteration i, entered with the iteration's constant "now" = nowL
CheckQuota(toks, cur, apiType, i, nowL, t) ==
    LET n == Cardinality(DOMAIN toks)
        index == (cur + i) % n
        rateLimit == toks[index].rateLimits[apiType]
    IN  IF HasQuota(rateLimit)
        THEN [k |-> "return", i |-> i, index |-> index, now |-> nowL]
        ELSE IF ResetPassed(rateLimit, nowL)
             THEN [k |-> "probeReset", i |-> i, index |-> index, now |-> nowL]
             ELSE ScanFrom(toks, cur, apiType, i + 1, t)

\* lines 116-129 of iteration i
ScanFrom(toks, cur, apiType, i, t) ==
    LET n == Cardinality(DOMAIN toks)
        index == (cur + i) % n
    IN  IF i >= n
        THEN [k |-> "exhausted", i |-> i, index |-> 0, now |-> t]
        ELSE IF ~toks[index].isHealthy
             THEN ScanFrom(toks, cur, apiType, i + 1, t)
             ELSE IF IsStale(toks[index], t)
                  THEN [k |-> "probeStale", i |-> i, index |-> index, now |-> t]
                  ELSE CheckQuota(toks, cur, apiType, i, t, t)

\* lines 154-164: after the probe of line 152 has settled
AfterResetProbe(toks, cur, apiType, i, nowL, t) ==
    LET n == Cardinality(DOMAIN toks)
        index == (cur + i) % n
    IN  IF HasQuota(toks[index].rateLimits[apiType])
        THEN [k |-> "return", i |-> i, index |-> index, now |-> nowL]
        ELSE ScanFrom(toks, cur, apiType, i + 1, t)

(***************************************************************************)
(* getBestToken: all tokens rate limited (lines 167-189).                  *)
(***************************************************************************)
\* this.tokens as a sequence, in index order
TokenSeq(toks) == [k \in 1..Cardinality(DOMAIN toks) |-> toks[k - 1]]

NoTokenIsHealthy(token) == FALSE

\* line 169: filter(t => t.isHealthy)
IsHealthyToken(token) == token.isHealthy

\* lines 168-173: filter, then map with idx = the position in the FILTERED array
resetTimes(toks, apiType, t) ==
    LET filtered == SelectSeq(TokenSeq(toks), IsHealthyToken)
    IN  [k \in 1..Len(filtered) |->
            [index |-> k - 1,
             resetTime |-> IF filtered[k].rateLimits[apiType].reset * 1000 = 0
                           THEN t
                           ELSE filtered[k].rateLimits[apiType].reset * 1000]]

\* lines 174, 180: element 0 of the (stable) sort by resetTime
soonestReset(rts) ==
    rts[CHOOSE k \in 1..Len(rts) :
            \A j \in 1..Len(rts) :
                \/ rts[k].resetTime < rts[j].resetTime
                \/ rts[k].resetTime = rts[j].resetTime /\ k <= j]

\* line 181
waitTime(sr, t) ==
    (IF sr.resetTime - t > 0 THEN sr.resetTime - t ELSE 0) + ResetMarginMs

(***************************************************************************)
(* execute: the catch block (lines 224-255) as a decision.                 *)
(***************************************************************************)
CatchDecisionRetryClientError(error, attempt) ==
    IF error.status = 403 /\ Includes(error.message, <<"rate", "limit">>)
    THEN [k |-> "continue", ms |-> 0]
    ELSE IF error.status >= 400
    THEN [k |-> "sleep", ms |-> BackoffBaseMs * (attempt + 1)]
    ELSE [k |-> "throw", ms |-> 0]

\* lines 224-255, in the order of the code's tests
CatchDecision(error, attempt) ==
    IF error.status = 403 /\ Includes(error.message, <<"rate", "limit">>)
    THEN [k |-> "continue", ms |-> 0]
    ELSE IF error.status = 403
            /\ Includes(error.message, <<"secondary", "rate", "limit">>)
    THEN [k |-> "sleep", ms |-> CooldownMs]
    ELSE IF error.status >= 400 /\ error.status < 500
    THEN [k |-> "throw", ms |-> 0]
    ELSE IF error.status >= 500
    THEN [k |-> "sleep", ms |-> BackoffBaseMs * (attempt + 1)]
    ELSE [k |-> "throw", ms |-> 0]

maxRetriesPlusOne(m) == NumTokens(m) + 1

\* line 212
maxRetries(m) == NumTokens(m)

LockIgnored(m) == FALSE

\* line 108: while (this.rotationLock)
LockHeld(m) == rotationLock[m]

(***************************************************************************)
(* The locals of one execute call.  reqCount, tries, reqOk, slept, path,   *)
(* outcome and thrown record what the call did, for the properties.        *)
(***************************************************************************)
InitFrame ==
    [apiType |-> "core",
     attempt |-> 0,            \* execute: loop counter
     lastError |-> NoError,    \* execute: lastError
     tokenId |-> -1,           \* execute: tokenId of the token getBestToken returned
     i |-> 0,                  \* getBestToken: loop counter
     index |-> 0,              \* getBestToken: index / soonestReset.index
     now |-> 0,                \* getBestToken: the iteration's const now
     wakeAt |-> 0,             \* the time the pending sleep ends
     path |-> "none",          \* how getBestToken returned: "scan" or "wait"
     slept |-> 0,              \* ms execute slept before the current attempt
     tries |-> 0,              \* getBestToken calls made
     reqCount |-> 0,           \* requestFn invocations made
     reqOk |-> FALSE,          \* the latest requestFn resolved
     outcome |-> "none",       \* "result" or "throw"
     thrown |-> NoError]       \* the error execute threw

\* the locals of getBestToken go out of scope when it returns or throws
LeaveGetBestToken(fr) == [fr EXCEPT !.i = 0, !.index = 0, !.now = 0, !.wakeAt = 0]

\* execute has returned or thrown: its locals are gone, what it did remains
Finished(fr, outcome, error) ==
    [InitFrame EXCEPT !.outcome = outcome, !.thrown = error, !.tries = fr.tries,
                      !.reqCount = fr.reqCount, !.reqOk = fr.reqOk]

FinallyOnReturnOnly(m, exit) ==
    IF exit = "throw" THEN rotationLock ELSE [rotationLock EXCEPT ![m] = FALSE]

\* lines 202-204: finally { this.rotationLock = false }, on a return and on a throw
Finally(m, exit) == [rotationLock EXCEPT ![m] = FALSE]

InSelection(c) == pc[c] \in {"probeStale", "probeReset", "resetWait", "probeWait"}

(***************************************************************************)
(* getBestToken as action fragments.  Resume applies the point at which    *)
(* the scan stopped; toks is this.tokens as the settled probe left it.     *)
(***************************************************************************)
ScanReturnDecrements(c, fr, cont, toks) ==
    LET m == worker[c]
    IN  /\ tokens' = [tokens EXCEPT ![m] =
                          [toks EXCEPT ![cont.index].lastUsed = cont.now,
                                       ![cont.index].rateLimits[fr.apiType].remaining = @ - 1]]
        /\ currentIndex' = [currentIndex EXCEPT ![m] = (cont.index + 1) % NumTokens(m)]
        /\ rotationLock' = Finally(m, "return")
        /\ lastSel' = [lastSel EXCEPT ![m] = cont.index]
        /\ pc' = [pc EXCEPT ![c] = "request"]
        /\ frame' = [frame EXCEPT ![c] =
                        [LeaveGetBestToken(fr) EXCEPT !.tokenId = cont.index,
                                                      !.path = "scan",
                                                      !.reqCount = @ + 1]]

\* lines 140-147 / 155-162, then finally, then execute line 218
ScanReturn(c, fr, cont, toks) ==
    LET m == worker[c]
    IN  /\ tokens' = [tokens EXCEPT ![m] = [toks EXCEPT ![cont.index].lastUsed = cont.now]]
        /\ currentIndex' = [currentIndex EXCEPT ![m] = (cont.index + 1) % NumTokens(m)]
        /\ rotationLock' = Finally(m, "return")
        /\ lastSel' = [lastSel EXCEPT ![m] = cont.index]
        /\ pc' = [pc EXCEPT ![c] = "request"]
        /\ frame' = [frame EXCEPT ![c] =
                        [LeaveGetBestToken(fr) EXCEPT !.tokenId = cont.index,
                                                      !.path = "scan",
                                                      !.reqCount = @ + 1]]

\* lines 167-189, and execute's catch when line 177 throws
AllRateLimited(c, fr, toks) ==
    LET m == worker[c]
        rts == resetTimes(toks, fr.apiType, now)
        error == NoHealthyError(fr.attempt)
    IN  /\ tokens' = [tokens EXCEPT ![m] = toks]
        /\ UNCHANGED <<currentIndex, lastSel>>
        /\ IF Len(rts) = 0
           THEN /\ CatchDecision(error, fr.attempt).k = "throw"
                /\ rotationLock' = Finally(m, "throw")
                /\ pc' = [pc EXCEPT ![c] = "done"]
                /\ frame' = [frame EXCEPT ![c] = Finished(fr, "throw", error)]
           ELSE /\ rotationLock' = [rotationLock EXCEPT ![m] = TRUE]
                /\ pc' = [pc EXCEPT ![c] = "resetWait"]
                /\ frame' = [frame EXCEPT ![c] =
                                [fr EXCEPT !.i = 0, !.now = 0,
                                           !.index = soonestReset(rts).index,
                                           !.wakeAt = now + waitTime(soonestReset(rts), now)]]

Resume(c, fr, cont, toks) ==
    LET m == worker[c]
    IN  IF cont.k = "return"
        THEN ScanReturn(c, fr, cont, toks)
        ELSE IF cont.k = "exhausted"
        THEN AllRateLimited(c, fr, toks)
        ELSE /\ tokens' = [tokens EXCEPT ![m] = toks]
             /\ rotationLock' = [rotationLock EXCEPT ![m] = TRUE]
             /\ pc' = [pc EXCEPT ![c] = cont.k]
             /\ frame' = [frame EXCEPT ![c] =
                             [fr EXCEPT !.i = cont.i, !.index = cont.index,
                                        !.now = cont.now]]
             /\ UNCHANGED <<currentIndex, lastSel>>

\* lines 106-116: poll the lock, or take it and start the scan
EnterGetBestToken(c, fr) ==
    LET m == worker[c]
    IN  IF LockHeld(m)
        THEN /\ pc' = [pc EXCEPT ![c] = "lockWait"]
             /\ frame' = [frame EXCEPT ![c] = [fr EXCEPT !.wakeAt = now + LockPollMs]]
             /\ UNCHANGED <<tokens, currentIndex, rotationLock, lastSel>>
        ELSE Resume(c, fr, ScanFrom(tokens[m], currentIndex[m], fr.apiType, 0, now),
                    tokens[m])

\* line 216: a new getBestToken call
CallGetBestToken(c, fr) ==
    EnterGetBestToken(c, [fr EXCEPT !.tries = @ + 1])

\* line 214 after a continue: attempt++, the loop test, then line 216 or line 258
ContinueLoop(c, fr) ==
    IF fr.attempt + 1 < maxRetries(worker[c])
    THEN CallGetBestToken(c, [fr EXCEPT !.attempt = @ + 1])
    ELSE /\ pc' = [pc EXCEPT ![c] = "done"]
         /\ frame' = [frame EXCEPT ![c] = Finished(fr, "throw", fr.lastError)]
         /\ UNCHANGED <<tokens, currentIndex, rotationLock, lastSel>>

(***************************************************************************)
(* Actions.                                                                *)
(***************************************************************************)
\* execute(apiType, requestFn) is called: lines 210-216
Execute(c, apiType) ==
    /\ pc[c] \in {"idle", "done"}
    /\ CallGetBestToken(c, [InitFrame EXCEPT !.apiType = apiType])
    /\ UNCHANGED <<now, worker, runVars, dbVars, gen, health, batchSize>>

\* the probe of line 128 settles: lines 131-164 and on
StaleProbeDone(c, probe) ==
    LET m == worker[c]
        fr == frame[c]
        toks == [tokens[m] EXCEPT ![fr.index] = Probed(@, probe, now)]
    IN  /\ pc[c] = "probeStale"
        /\ probe \in ProbesFor(tokens[m][fr.index])
        /\ Resume(c, fr, CheckQuota(toks, currentIndex[m], fr.apiType, fr.i, fr.now, now),
                  toks)
        /\ UNCHANGED <<now, worker, runVars, dbVars, gen, health, batchSize, calls>>

\* the probe of line 152 settles: lines 154-164 and on
ResetProbeDone(c, probe) ==
    LET m == worker[c]
        fr == frame[c]
        toks == [tokens[m] EXCEPT ![fr.index] = Probed(@, probe, now)]
    IN  /\ pc[c] = "probeReset"
        /\ probe \in ProbesFor(tokens[m][fr.index])
        /\ Resume(c, fr,
                  AfterResetProbe(toks, currentIndex[m], fr.apiType, fr.i, fr.now, now),
                  toks)
        /\ UNCHANGED <<now, worker, runVars, dbVars, gen, health, batchSize, calls>>

\* the probe of line 192 settles: lines 193-204, then execute line 218
WaitProbeDone(c, probe) ==
    LET m == worker[c]
        fr == frame[c]
        toks == [tokens[m] EXCEPT ![fr.index] = Probed(@, probe, now)]
    IN  /\ pc[c] = "probeWait"
        /\ probe \in ProbesFor(tokens[m][fr.index])
        /\ tokens' = [tokens EXCEPT ![m] = [toks EXCEPT ![fr.index].lastUsed = now]]
        /\ rotationLock' = Finally(m, "return")
        /\ lastSel' = [lastSel EXCEPT ![m] = fr.index]
        /\ pc' = [pc EXCEPT ![c] = "request"]
        /\ frame' = [frame EXCEPT ![c] =
                        [LeaveGetBestToken(fr) EXCEPT !.tokenId = fr.index,
                                                      !.path = "wait",
                                                      !.reqCount = @ + 1]]
        /\ UNCHANGED <<currentIndex, now, worker, runVars, dbVars, gen, health, batchSize, calls>>

\* requestFn resolves: line 221 issues the probe
RequestOk(c) ==
    /\ pc[c] = "request"
    /\ pc' = [pc EXCEPT ![c] = "postProbe"]
    /\ frame' = [frame EXCEPT ![c].reqOk = TRUE]
    /\ UNCHANGED <<tokens, currentIndex, rotationLock, now, worker, runVars, dbVars, gen, health, batchSize, lastSel, calls>>

\* requestFn rejects: the catch block, lines 224-255
RequestFailed(c, error) ==
    LET fr == [frame[c] EXCEPT !.lastError = error, !.reqOk = FALSE]
        d == CatchDecision(error, fr.attempt)
    IN  /\ pc[c] = "request"
        /\ error \in RequestErrors(fr.attempt)
        /\ IF d.k = "continue"
           THEN ContinueLoop(c, [fr EXCEPT !.slept = 0])
           ELSE IF d.k = "sleep"
           THEN /\ pc' = [pc EXCEPT ![c] = "retrySleep"]
                /\ frame' = [frame EXCEPT ![c] =
                                [fr EXCEPT !.wakeAt = now + d.ms, !.slept = d.ms]]
                /\ UNCHANGED <<tokens, currentIndex, rotationLock, lastSel>>
           ELSE /\ pc' = [pc EXCEPT ![c] = "done"]
                /\ frame' = [frame EXCEPT ![c] = Finished(fr, "throw", error)]
                /\ UNCHANGED <<tokens, currentIndex, rotationLock, lastSel>>
        /\ UNCHANGED <<now, worker, runVars, dbVars, gen, health, batchSize, calls>>

\* sleep(ms) resolves (lines 284-286) and the awaiting code goes on:
\*   line 109: re-test the lock;  line 189: line 192 issues the probe;
\*   line 234 or 250: continue
SleepDone(c) ==
    /\ pc[c] \in {"lockWait", "resetWait", "retrySleep"}
    /\ now >= frame[c].wakeAt
    /\ IF pc[c] = "lockWait"
       THEN EnterGetBestToken(c, [frame[c] EXCEPT !.wakeAt = 0])
       ELSE IF pc[c] = "resetWait"
       THEN /\ pc' = [pc EXCEPT ![c] = "probeWait"]
            /\ frame' = [frame EXCEPT ![c].wakeAt = 0]
            /\ UNCHANGED <<tokens, currentIndex, rotationLock, lastSel>>
       ELSE ContinueLoop(c, [frame[c] EXCEPT !.wakeAt = 0])
    /\ UNCHANGED <<now, worker, runVars, dbVars, gen, health, batchSize, calls>>

\* the probe of line 221 settles: line 223 returns the result
PostProbeDone(c, probe) ==
    LET m == worker[c]
        fr == frame[c]
    IN  /\ pc[c] = "postProbe"
        /\ probe \in ProbesFor(tokens[m][fr.tokenId])
        /\ tokens' = [tokens EXCEPT ![m][fr.tokenId] = Probed(@, probe, now)]
        /\ pc' = [pc EXCEPT ![c] = "done"]
        /\ frame' = [frame EXCEPT ![c] = Finished(fr, "result", NoError)]
        /\ UNCHANGED <<currentIndex, rotationLock, now, worker, runVars, dbVars, gen, health, batchSize, lastSel, calls>>

(***************************************************************************)
(* getHealthStatus (lines 264-282): Promise.all over this.tokens.map: the  *)
(* callbacks run one after the other up to their await, so the probes of   *)
(* all tokens are in flight together and settle in any order.              *)
(***************************************************************************)
\* no getHealthStatus() call has been made: pending is the set of token
\* indices whose probe is in flight, statuses[i] what callback i returned,
\* calls the number of calls made
NoHealthCall == [pending |-> {}, statuses |-> <<>>, calls |-> 0]

\* lines 268-271: the status the callback of a token returns
Status(token) ==
    [isHealthy |-> token.isHealthy, consecutiveErrors |-> token.consecutiveErrors]

\* getHealthStatus() is called: line 267 issues the probe of every token
GetHealthStatus(m) ==
    /\ health[m].pending = {}
    /\ health[m].calls < MaxHealthCalls
    /\ health' = [health EXCEPT ![m] = [pending |-> DOMAIN tokens[m],
                                        statuses |-> <<>>,
                                        calls |-> health[m].calls + 1]]
    /\ UNCHANGED <<tokens, currentIndex, rotationLock, now, worker, pc, frame, lastSel, calls>>
    /\ UNCHANGED <<runVars, dbVars, gen, batchSize>>

\* the probe of line 267 for token index settles: lines 268-277
HealthProbeDone(m, index, probe) ==
    LET token == Probed(tokens[m][index], probe, now)
    IN  /\ index \in health[m].pending
        /\ probe \in ProbesFor(tokens[m][index])
        /\ tokens' = [tokens EXCEPT ![m][index] = token]
        /\ health' = [health EXCEPT ![m].pending = @ \ {index},
                                    ![m].statuses = [i \in (DOMAIN @) \cup {index} |->
                                                       IF i = index THEN Status(token)
                                                       ELSE @[i]]]
        /\ UNCHANGED <<currentIndex, rotationLock, now, worker, pc, frame, lastSel, calls>>
        /\ UNCHANGED <<runVars, dbVars, gen, batchSize>>

\* A caller that awaits a sleep, or no call at all
Quiescent(c) == pc[c] \in {"idle", "done", "lockWait", "resetWait", "retrySleep"}

\* Time passes.  The clock is coarse (steps of TickSet): a pending network
\* request settles within the clock step in which it was issued.
Tick(d) ==
    /\ \A c \in Callers : Quiescent(c)
    /\ \A m \in Workers : health[m].pending = {}
    /\ now' = now + d
    /\ UNCHANGED <<tokens, currentIndex, rotationLock, worker, runVars, dbVars, gen, health, batchSize, pc, frame, lastSel, calls>>

(***************************************************************************)
(* The workers.  RepositoryDiscoveryWorker.run and DeveloperActivityWorker *)
(* .run / .runBackfill are called by the cron jobs, at startup and by the  *)
(* trigger endpoints; trigger t of worker w is the call runs[w][t].  A     *)
(* repository is identified by one name, which stands for its repoId and   *)
(* for its owner/name key.                                                 *)
(***************************************************************************)
Repos == {"a", "b"}
Triggers == 1..MaxTriggers

\* the variables of the TokenManager model
tmVars == <<tokens, currentIndex, rotationLock, now, worker, pc, frame, lastSel, calls>>

\* query.type of the cell's query (config.solanaSearchQueries)
CellType(cell) == IF cell = 1 THEN "anchor" ELSE "native"

\* result.items of a search request: up to PerPage items
Pages == UNION {[1..n -> Repos] : n \in 0..PerPage}

\* the outcomes of searchCode / searchRepositories / getTrendingRepositories
SearchResults ==
    {[ok |-> TRUE, items |-> items] : items \in Pages}
        \cup {[ok |-> FALSE, items |-> <<>>]}

Devs == {"u", "v"}
NoLogin == ""           \* contribution.author or its login is missing

\* processBatch: referenceTime = Math.floor(Date.now() / 1000) - week * 26
ReferenceTime(t) == (t \div 1000) - WeekSeconds * ReferenceWeeks

\* the week entries {w, c} of a contribution: week stamps below, at and above
\* the reference time, with and without commits
WeekStamps == {ReferenceTime(StartTime) + d : d \in {-1, 0, 1}}
WeekEntries == [w : WeekStamps, c : {0, 1}]
WeekLists == UNION {[1..n -> WeekEntries] : n \in 0..MaxWeeks}

\* one element of the stats response
Contributions == [login : Devs \cup {NoLogin}, weeks : WeekLists]

\* what the upstream answers to GET .../stats/contributors, as execute passes
\* it on: a response (200 with count contributions, or 202) or an error
StatsResponses ==
    {[status |-> 200, count |-> n] : n \in 0..MaxContributors}
        \cup {[status |-> st, count |-> 0] : st \in {202, 404, 500}}

\* the responses that carry no contributions
BareResponses == {response \in StatsResponses : response.count = 0 /\ response.status # 202}

\* the orders in which a query can deliver the rows of S
Orders(S) ==
    {f \in [1..Cardinality(S) -> S] : \A i, j \in DOMAIN f : i # j => f[i] # f[j]}

Min(x, y) == IF x < y THEN x ELSE y

\* the rows of the ecosystem
Ecosystem == {r \in Repos : rows[r] > 0}

\* LIMIT limit OFFSET offset of the rows in the order f
Page(f, limit, offset) ==
    [items |-> SubSeq(f, offset + 1, Min(offset + limit, Len(f))), order |-> f]

\* findAll({ where: { ecosystem }, order, limit, offset }): no test of
\* isClosedSource.  The rows are ordered by createdAt alone, which the rows
\* of one bulkCreate share: each query delivers them in some order.
getRepositoriesForProcessing(limit, offset) ==
    {Page(f, limit, offset) : f \in Orders(Ecosystem)}

\* the rows without an activity row and with isClosedSource = false
getRepositoriesWithoutActivities(limit) ==
    {Page(f, limit, 0) :
        f \in Orders({r \in Repos : /\ rows[r] > 0
                                     /\ r \notin closedSource
                                     /\ ~\E a \in activities : a.repositoryId = r})}

\* the outcomes of the batch query of run rn
BatchResults(rn) ==
    {[ok |-> TRUE, items |-> q.items, order |-> q.order] :
        q \in IF rn.kind = "run"
              THEN getRepositoriesForProcessing(batchSize, rn.offset)
              ELSE getRepositoriesWithoutActivities(batchSize)}
        \cup {[ok |-> FALSE, items |-> <<>>, order |-> <<>>]}

\* the three strategies of run(), in the order they are awaited
Strategies == {"code", "repo", "trending"}

Occurrences(items, r) == Cardinality({i \in 1..Len(items) : items[i] = r})

Capped(n) == IF n > CountCap THEN CountCap ELSE n

\* One run()/runBackfill() call: where it is suspended and its locals.
\* submitted[r] counts the times r was passed to bulkCreateRepositories and
\* seen[r] the times r was an item of a search result, in this run; threw
\* tells that the lookup of an item of the page being processed has thrown,
\* searchFailed that a search request of this run was rejected; weeks is
\* contribution.weeks of the contribution being processed, sleepMs the
\* argument of the sleep the run awaits in getContributorsActivity;
\* attempted[r] counts the processRepository calls made for r, order is the
\* order in which the first batch query delivered the rows and stable tells
\* that every later query of the run delivered them in that order;
\* totalFound[s] is what strategy s has counted so far (totalFound of
\* searchByCode and searchByRepository, the return value of searchTrending),
\* total the sum of the three that run() logs when they have returned.
NoRun ==
    [pc |-> "none", kind |-> "run", strategy |-> "none", cell |-> 0, page |-> 0,
     items |-> <<>>, k |-> 0, reposData |-> <<>>, batches |-> 0,
     failed |-> FALSE, outcome |-> "none", threw |-> FALSE, searchFailed |-> FALSE,
     offset |-> 0, referenceTime |-> 0, processedCount |-> 0, errorCount |-> 0,
     totalProcessed |-> 0, totalErrors |-> 0, polls |-> 0,
     count |-> 0, j |-> 0, username |-> NoLogin, activitiesData |-> <<>>,
     weeks |-> <<>>, sleepMs |-> 0, order |-> <<>>, stable |-> TRUE,
     attempted |-> [r \in Repos |-> 0],
     totalFound |-> [s \in Strategies |-> 0], total |-> 0,
     submitted |-> [r \in Repos |-> 0], seen |-> [r \in Repos |-> 0]]

Active(run) == run.pc \notin {"none", "rejected", "ended"}

\* total: codeResults + repoResults + trendingResults
Total(found) == found["code"] + found["repo"] + found["trending"]

RunRethrows == FALSE

\* run / runBackfill: catch (error) { logger.error(...) } handles every error
RunCatches == TRUE

\* the call has returned: try, catch and finally are done
Ended(rn, failed) ==
    [NoRun EXCEPT !.pc = "ended", !.kind = rn.kind, !.failed = failed,
                  !.outcome = IF failed /\ ~RunCatches THEN "rejected" ELSE "resolved",
                  !.submitted = rn.submitted, !.seen = rn.seen,
                  !.attempted = rn.attempted, !.stable = rn.stable,
                  !.total = IF failed THEN 0 ELSE Total(rn.totalFound),
                  !.searchFailed = rn.searchFailed,
                  !.totalProcessed = rn.totalProcessed, !.totalErrors = rn.totalErrors]

\* a search request is issued for a page of a cell of a strategy
Search(rn, strategy, cell, page) ==
    [rn EXCEPT !.pc = "search", !.strategy = strategy, !.cell = cell, !.page = page,
               !.items = <<>>, !.k = 0, !.reposData = <<>>, !.threw = FALSE]

\* the cell is left (break, or the while loop ends): the next cell of the
\* strategy, else the next strategy, else run() completes
NextCell(rn) ==
    IF rn.strategy = "code"
    THEN IF rn.cell < NumCells
         THEN Search(rn, "code", rn.cell + 1, 1)
         ELSE Search(rn, "repo", 1, 1)
    ELSE IF rn.strategy = "repo"
    THEN IF rn.cell < NumKeywords
         THEN Search(rn, "repo", rn.cell + 1, 1)
         ELSE Search(rn, "trending", 1, 1)
    ELSE Ended(rn, FALSE)

\* processCodeSearchResults / processRepoSearchResults return reposData and
\* the caller counts it: totalFound += reposData.length (searchTrending
\* returns reposData.length)
Counted(rn) == [rn EXCEPT !.totalFound[rn.strategy] = @ + Len(rn.reposData)]

AfterPageKeepsPaging(rn) ==
    IF rn.strategy = "trending"
    THEN Ended(rn, FALSE)
    ELSE IF rn.page + 1 <= MaxPage
    THEN Search(rn, rn.strategy, rn.cell, rn.page + 1)
    ELSE NextCell(rn)

OnSearchErrorEndsRun(rn) == Ended([rn EXCEPT !.searchFailed = TRUE], TRUE)

\* the catch of the page loop logs the error and breaks: the cell is left
\* (searchTrending: return 0)
OnSearchError(rn) == NextCell([rn EXCEPT !.searchFailed = TRUE])

\* the page has been processed: a short page ends the cell, page++, and the
\* loop test hasMore && page <= 10; searchTrending has no loop
AfterPage(rn) ==
    IF rn.strategy = "trending"
    THEN Ended(Counted(rn), FALSE)
    ELSE IF Len(rn.items) >= PerPage /\ rn.page + 1 <= MaxPage
    THEN Search(Counted(rn), rn.strategy, rn.cell, rn.page + 1)
    ELSE NextCell(Counted(rn))

\* after the item loop: bulkCreateRepositories(reposData) when it is not empty
AfterItems(rn) ==
    IF Len(rn.reposData) > 0
    THEN [rn EXCEPT !.pc = "persist",
                    !.submitted = [r \in Repos |->
                                      Capped(@[r] + Occurrences(rn.reposData, r))]]
    ELSE AfterPage(rn)

HasKeyNever(processed, repoKey) == FALSE

\* this.processedRepos.has(repoKey)
HasKey(processed, repoKey) == repoKey \in processed

RECURSIVE SkipProcessed(_, _, _)
\* the item loop up to its next await: items whose key is in processedRepos
\* are skipped (continue)
SkipProcessed(items, k, processed) ==
    IF k > Len(items)
    THEN k
    ELSE IF HasKey(processed, items[k])
         THEN SkipProcessed(items, k + 1, processed)
         ELSE k

\* the item loop from item rn.k on: suspended in the lookup of an item, or done
Items(rn, processed) ==
    LET k == SkipProcessed(rn.items, rn.k, processed)
    IN  IF k > Len(rn.items)
        THEN AfterItems([rn EXCEPT !.k = k])
        ELSE [rn EXCEPT !.pc = "detail", !.k = k]

OnDetailErrorLeavePage(rn, processed) == NextCell(rn)

\* the catch of the item loop logs the error; the loop goes on with the next item
OnDetailError(rn, processed) ==
    Items([rn EXCEPT !.k = @ + 1, !.threw = TRUE], processed)

\* one row of bulkCreate with ignoreDuplicates on the unique repoId
InsertIgnore(table, r) == IF table[r] > 0 THEN table ELSE [table EXCEPT ![r] = 1]

RECURSIVE bulkCreateRepositories(_, _)
bulkCreateRepositories(table, reposData) ==
    IF reposData = <<>>
    THEN table
    ELSE bulkCreateRepositories(InsertIgnore(table, Head(reposData)), Tail(reposData))

\* the run record is stored; finally { this.isRunning = false } when it ended
Commit(w, t, rn) ==
    /\ runs' = [runs EXCEPT ![w][t] = rn]
    /\ isRunning' = [isRunning EXCEPT ![w] = IF rn.pc = "ended" THEN FALSE ELSE @]

NeverRunning(w) == FALSE

\* run / runBackfill: if (this.isRunning) return
AlreadyRunning(w) == isRunning[w]

\* the call enters its try block and runs up to its first await
Start(w, kind) ==
    IF w = "discovery"
    THEN Search([NoRun EXCEPT !.kind = kind], "code", 1, 1)
    ELSE [NoRun EXCEPT !.kind = kind, !.pc = "fetch"]

\* what an ended call did is not kept once a later call has started
Forget(run) ==
    IF run.pc = "ended"
    THEN [NoRun EXCEPT !.pc = "ended", !.kind = run.kind, !.outcome = run.outcome]
    ELSE run

\* A trigger: a cron job or the startup code calls run()/runBackfill(); a
\* trigger endpoint tests isRunning itself (409) and then calls it.
Trigger(w, t, kind, source) ==
    /\ runs[w][t].pc = "none"
    /\ \A u \in Triggers : u < t => runs[w][u].pc # "none"
    /\ kind = "backfill" => w = "activity"
    /\ IF (source = "manual" /\ isRunning[w]) \/ AlreadyRunning(w)
       THEN /\ runs' = [runs EXCEPT ![w][t] = [NoRun EXCEPT !.pc = "rejected",
                                                             !.kind = kind]]
            /\ UNCHANGED isRunning
       ELSE /\ runs' = [runs EXCEPT ![w] =
                           [u \in Triggers |->
                               IF u = t THEN Start(w, kind) ELSE Forget(runs[w][u])]]
            /\ isRunning' = [isRunning EXCEPT ![w] = TRUE]
    /\ UNCHANGED <<processedRepos, rows, repoTypes>>
    /\ UNCHANGED <<tmVars, dbVars, gen, health, batchSize>>

\* the search request of a discovery run settles
SearchDone(t, result) ==
    LET rn == runs["discovery"][t]
    IN  /\ rn.pc = "search"
        /\ result \in SearchResults
        /\ IF ~result.ok
           THEN Commit("discovery", t, OnSearchError(rn))
           ELSE IF Len(result.items) = 0
           THEN Commit("discovery", t, NextCell(rn))
           ELSE Commit("discovery", t,
                       Items([rn EXCEPT !.items = result.items, !.k = 1,
                                        !.seen = [r \in Repos |->
                                            Capped(@[r] + Occurrences(result.items, r))]],
                             processedRepos))
        /\ UNCHANGED <<processedRepos, rows, repoTypes>>
        /\ UNCHANGED <<tmVars, dbVars, gen, health, batchSize>>

AddKeyForgets(processed, repoKey) == processed

\* this.processedRepos.add(repoKey)
AddKey(processed, repoKey) == processed \cup {repoKey}

\* the lookup of item k settles: getRepository (code search: details, null
\* for a 404, or an error) or repositoryExists (true, false, or an error)
DetailDone(t, outcome) ==
    LET rn == runs["discovery"][t]
        r == rn.items[rn.k]
        pushed == IF rn.strategy = "code" THEN outcome = "found" ELSE outcome = "absent"
        added == outcome = "found" \/ pushed
        processed == IF added THEN AddKey(processedRepos, r) ELSE processedRepos
    IN  /\ rn.pc = "detail"
        /\ outcome \in {"found", "absent", "throw"}
        /\ rn.strategy # "code" =>
               outcome \in {"throw", IF rows[r] > 0 THEN "found" ELSE "absent"}
        /\ processedRepos' = processed
        /\ Commit("discovery", t,
                  IF outcome = "throw"
                  THEN OnDetailError(rn, processed)
                  ELSE Items([rn EXCEPT !.k = @ + 1,
                                        !.reposData = IF pushed THEN Append(@, r) ELSE @],
                             processed))
        /\ UNCHANGED <<rows, repoTypes>>
        /\ UNCHANGED <<tmVars, dbVars, gen, health, batchSize>>

OnPersistErrorForgets(processed, reposData) ==
    processed \ {reposData[i] : i \in 1..Len(reposData)}

\* the catch around bulkCreateRepositories logs the error: processedRepos
\* keeps the keys of the page
OnPersistError(processed, reposData) == processed

\* repoTypesData: one { repoId, type } per element of reposData, type being
\* query.type of the cell
repoTypesData(rn) == {<<rn.reposData[i], CellType(rn.cell)>> : i \in 1..Len(rn.reposData)}

\* bulkCreateRepositories settles; a failure is logged.  The code search goes
\* on to bulkCreateRepoTypes(repoTypesData).
PersistDone(t, ok) ==
    LET rn == runs["discovery"][t]
    IN  /\ rn.pc = "persist"
        /\ rows' = IF ok THEN bulkCreateRepositories(rows, rn.reposData) ELSE rows
        /\ processedRepos' = IF ok
                             THEN processedRepos
                             ELSE OnPersistError(processedRepos, rn.reposData)
        /\ Commit("discovery", t,
                  IF rn.strategy = "code"
                  THEN [rn EXCEPT !.pc = "persistTypes"]
                  ELSE AfterPage(rn))
        /\ UNCHANGED repoTypes
        /\ UNCHANGED <<tmVars, dbVars, gen, health, batchSize>>

\* bulkCreateRepoTypes settles; a failure is logged
PersistTypesDone(t, ok) ==
    LET rn == runs["discovery"][t]
    IN  /\ rn.pc = "persistTypes"
        /\ repoTypes' = IF ok
                        THEN repoTypes \cup repoTypesData(rn)
                        ELSE repoTypes
        /\ Commit("discovery", t, AfterPage(rn))
        /\ UNCHANGED <<processedRepos, rows>>
        /\ UNCHANGED <<tmVars, dbVars, gen, health, batchSize>>

BatchReturnsKeepsOffset(rn) ==
    [rn EXCEPT !.pc = "delay", !.items = <<>>, !.k = 0, !.count = 0, !.j = 0,
               !.totalProcessed = Min(@ + rn.processedCount, MaxTotal),
               !.totalErrors = Min(@ + rn.errorCount, MaxTotal)]

\* processBatch returns { processedCount, errorCount }: the run adds them to
\* its totals, moves its offset (run only) and awaits sleep(5000)
BatchReturns(rn) ==
    [rn EXCEPT !.pc = "delay", !.items = <<>>, !.k = 0, !.count = 0, !.j = 0,
               !.totalProcessed = Min(@ + rn.processedCount, MaxTotal),
               !.totalErrors = Min(@ + rn.errorCount, MaxTotal),
               !.offset = IF rn.kind = "run" THEN @ + batchSize ELSE @]

\* processRepository is called for repository k: the stats request is issued
ProcessRepository(rn, k) ==
    [rn EXCEPT !.pc = "stats", !.k = k, !.polls = 0, !.count = 0, !.j = 0,
               !.username = NoLogin, !.activitiesData = <<>>, !.weeks = <<>>,
               !.attempted[rn.items[k]] = Capped(@ + 1)]

\* the for loop of processBatch: the next repository, or the batch is done
NextRepository(rn) ==
    IF rn.k < Len(rn.items) THEN ProcessRepository(rn, rn.k + 1) ELSE BatchReturns(rn)

\* processRepository has returned: processedCount++
RepositoryProcessed(rn) == NextRepository([rn EXCEPT !.processedCount = @ + 1])

CatchRepositoryRethrows(rn, status) == Ended(rn, TRUE)

\* the catch of processBatch: errorCount++, and for a 404 the repository is
\* marked closed source before the loop goes on
CatchRepository(rn, status) ==
    IF status = 404
    THEN [rn EXCEPT !.errorCount = @ + 1, !.pc = "mark"]
    ELSE NextRepository([rn EXCEPT !.errorCount = @ + 1])

\* the loop of processRepository reaches contribution j
ProcessContributor(rn, j) ==
    [rn EXCEPT !.pc = "contributor", !.j = j, !.username = NoLogin,
               !.activitiesData = <<>>, !.weeks = <<>>]

\* processContributor has returned, or thrown into the catch of lines 95-101:
\* the next contribution, or processRepository returns
NextContributor(rn) ==
    IF rn.j < rn.count THEN ProcessContributor(rn, rn.j + 1) ELSE RepositoryProcessed(rn)

getContributorsActivityGivesUp(response) ==
    IF response.status = 202 THEN [kind |-> "null", count |-> 0, status |-> 202]
    ELSE IF response.status = 200
    THEN [kind |-> "data", count |-> response.count, status |-> 200]
    ELSE IF response.status = 404 THEN [kind |-> "null", count |-> 0, status |-> 404]
    ELSE [kind |-> "throw", count |-> 0, status |-> response.status]

\* what getContributorsActivity makes of the upstream answer: a 202 is asked
\* again after sleep(2000), a 404 becomes null, any other error is thrown
getContributorsActivity(response) ==
    IF response.status = 202 THEN [kind |-> "again", count |-> 0, status |-> 202]
    ELSE IF response.status = 200
    THEN [kind |-> "data", count |-> response.count, status |-> 200]
    ELSE IF response.status = 404 THEN [kind |-> "null", count |-> 0, status |-> 404]
    ELSE [kind |-> "throw", count |-> 0, status |-> response.status]

InWindowOrAtReference(item, referenceTime) == item.c # 0 /\ item.w >= referenceTime

\* item.c !== 0 && item.w > referenceTime
InWindow(item, referenceTime) == item.c # 0 /\ item.w > referenceTime

\* contribution.weeks.filter(...)
FilterWeeks(weeks, referenceTime) ==
    SelectSeq(weeks, LAMBDA item : InWindow(item, referenceTime))

\* activities.map(...): the rows passed to bulkCreateActivities
ActivitiesData(rn) ==
    [i \in 1..Len(rn.activitiesData) |->
        [repositoryId |-> rn.items[rn.k], developerId |-> rn.username,
         date |-> rn.activitiesData[i].w, commits |-> rn.activitiesData[i].c]]

\* one row of bulkCreate with ignoreDuplicates on the unique index
\* (repositoryId, developerId, date)
InsertActivity(table, row) ==
    IF \E a \in table : /\ a.repositoryId = row.repositoryId
                        /\ a.developerId = row.developerId
                        /\ a.date = row.date
    THEN table
    ELSE table \cup {row}

RECURSIVE bulkCreateActivities(_, _)
bulkCreateActivities(table, activitiesData) ==
    IF activitiesData = <<>>
    THEN table
    ELSE bulkCreateActivities(InsertActivity(table, Head(activitiesData)),
                              Tail(activitiesData))

\* the history of the batch queries of the run: the order of the first one,
\* and whether the later ones agreed with it
Queried(rn, result) ==
    IF rn.batches = 0
    THEN [rn EXCEPT !.order = result.order]
    ELSE [rn EXCEPT !.stable = @ /\ result.order = rn.order]

\* the model's bound on the batches of a run: its next batch may be non-empty
MayFetch(t, result) ==
    Len(result.items) > 0 => runs["activity"][t].batches < MaxBatches

\* the batch query of an activity run settles: an error reaches the catch of
\* run, an empty batch ends the loop, else processBatch starts
FetchDone(t, result) ==
    LET rn == runs["activity"][t]
    IN  /\ rn.pc = "fetch"
        /\ result \in BatchResults(rn)
        /\ Commit("activity", t,
                  IF ~result.ok THEN Ended(rn, TRUE)
                  ELSE IF Len(result.items) = 0 THEN Ended(Queried(rn, result), FALSE)
                  ELSE ProcessRepository(
                           [Queried(rn, result) EXCEPT
                                      !.items = result.items,
                                      !.batches = Min(@ + 1, MaxBatches),
                                      !.referenceTime = ReferenceTime(now),
                                      !.processedCount = 0, !.errorCount = 0], 1))
        /\ UNCHANGED <<processedRepos, rows, repoTypes>>
        /\ UNCHANGED <<tmVars, dbVars, gen, health, batchSize>>

\* the call that processBatch awaits for repository k settles: the stats
\* request of processRepository, or markRepositoryClosedSource in the catch
\* (a rejection of the latter leaves processBatch and reaches the catch of run)
RepositoryCallDone(t, response) ==
    LET rn == runs["activity"][t]
        res == getContributorsActivity(response)
    IN  /\ rn.pc \in {"stats", "mark"}
        /\ response \in StatsResponses
        /\ closedSource' = IF rn.pc = "mark" /\ response.status = 200
                           THEN closedSource \cup {rn.items[rn.k]}
                           ELSE closedSource
        /\ Commit("activity", t,
                  IF rn.pc = "mark"
                  THEN IF response.status = 200 THEN NextRepository(rn) ELSE Ended(rn, TRUE)
                  ELSE IF res.kind = "again"
                  THEN [rn EXCEPT !.pc = "statsSleep", !.sleepMs = StatsDelayMs,
                                  !.polls = Min(@ + 1, MaxPolls)]
                  ELSE IF res.kind = "throw" THEN CatchRepository(rn, res.status)
                  ELSE IF res.kind = "null" \/ res.count = 0 THEN RepositoryProcessed(rn)
                  ELSE ProcessContributor([rn EXCEPT !.count = res.count], 1))
        /\ UNCHANGED <<processedRepos, rows, repoTypes, developers, activities>>
        /\ UNCHANGED <<tmVars, gen, health, batchSize>>

\* sleep(2000) after a 202 ends: the same stats request is issued again
StatsSleepDone(t) ==
    LET rn == runs["activity"][t]
    IN  /\ rn.pc = "statsSleep"
        /\ Commit("activity", t, [rn EXCEPT !.pc = "stats", !.sleepMs = 0])
        /\ UNCHANGED <<processedRepos, rows, repoTypes>>
        /\ UNCHANGED <<tmVars, dbVars, gen, health, batchSize>>

\* processContributor is called with contribution j and runs to its first
\* await: no author login or no week in the window returns at once
ContributorStart(t, contribution) ==
    LET rn == runs["activity"][t]
        kept == FilterWeeks(contribution.weeks, rn.referenceTime)
    IN  /\ rn.pc = "contributor"
        /\ contribution \in Contributions
        /\ Commit("activity", t,
                  IF contribution.login = NoLogin \/ Len(kept) = 0
                  THEN NextContributor(rn)
                  ELSE [rn EXCEPT !.pc = "getDeveloper",
                                  !.username = contribution.login,
                                  !.weeks = contribution.weeks,
                                  !.activitiesData = kept])
        /\ UNCHANGED <<processedRepos, rows, repoTypes>>
        /\ UNCHANGED <<tmVars, dbVars, gen, health, batchSize>>

\* getDeveloper(username) settles: the row, null, or an error (which leaves
\* processContributor)
GetDeveloperDone(t, outcome) ==
    LET rn == runs["activity"][t]
    IN  /\ rn.pc = "getDeveloper"
        /\ outcome \in {"throw", IF rn.username \in developers THEN "row" ELSE "null"}
        /\ Commit("activity", t,
                  IF outcome = "row" THEN [rn EXCEPT !.pc = "save"]
                  ELSE IF outcome = "null" THEN [rn EXCEPT !.pc = "getUser"]
                  ELSE NextContributor(rn))
        /\ UNCHANGED <<processedRepos, rows, repoTypes>>
        /\ UNCHANGED <<tmVars, dbVars, gen, health, batchSize>>

\* getUser({ username }) settles: the profile, null for a 404, or an error,
\* which the catch of lines 159-165 logs before it returns
GetUserDone(t, outcome) ==
    LET rn == runs["activity"][t]
    IN  /\ rn.pc = "getUser"
        /\ outcome \in {"found", "absent", "throw"}
        /\ Commit("activity", t,
                  IF outcome = "found" THEN [rn EXCEPT !.pc = "upsert"]
                  ELSE NextContributor(rn))
        /\ UNCHANGED <<processedRepos, rows, repoTypes>>
        /\ UNCHANGED <<tmVars, dbVars, gen, health, batchSize>>

\* upsertDeveloper settles: the developer row, or an error (same catch)
UpsertDone(t, ok) ==
    LET rn == runs["activity"][t]
    IN  /\ rn.pc = "upsert"
        /\ developers' = IF ok THEN developers \cup {rn.username} ELSE developers
        /\ Commit("activity", t,
                  IF ok THEN [rn EXCEPT !.pc = "save"] ELSE NextContributor(rn))
        /\ UNCHANGED <<processedRepos, rows, repoTypes, closedSource, activities>>
        /\ UNCHANGED <<tmVars, gen, health, batchSize>>

\* bulkCreateActivities(activitiesData) settles; a failure is logged
SaveDone(t, ok) ==
    LET rn == runs["activity"][t]
    IN  /\ rn.pc = "save"
        /\ activities' = IF ok
                         THEN bulkCreateActivities(activities, ActivitiesData(rn))
                         ELSE activities
        /\ Commit("activity", t, NextContributor(rn))
        /\ UNCHANGED <<processedRepos, rows, repoTypes, closedSource, developers>>
        /\ UNCHANGED <<tmVars, gen, health, batchSize>>

\* the delay between batches ends: the next batch query
DelayDone(t) ==
    LET rn == runs["activity"][t]
    IN  /\ rn.pc = "delay"
        /\ Commit("activity", t, [rn EXCEPT !.pc = "fetch"])
        /\ UNCHANGED <<processedRepos, rows, repoTypes>>
        /\ UNCHANGED <<tmVars, dbVars, gen, health, batchSize>>

(***************************************************************************)
(* generateSizeRanges.  The function is synchronous; the model takes it    *)
(* one loop iteration at a time.  gen.returned holds what the calls made   *)
(* so far returned; a lookup tells which of the ranges last returned match *)
(* a file size.                                                            *)
(***************************************************************************)
BandsOfEqualWidth ==
    <<[below |-> 1000, last |-> 199, step |-> 150],
      [below |-> 3000, last |-> 199, step |-> 150],
      [below |-> 5000, last |-> 199, step |-> 150],
      [below |-> 10000, last |-> 199, step |-> 150],
      [below |-> 15000, last |-> 199, step |-> 150]>>

\* the five while loops: while (start < below) { push start..start + last;
\* start += step }
Bands ==
    <<[below |-> 1000, last |-> 199, step |-> 150],
      [below |-> 3000, last |-> 499, step |-> 250],
      [below |-> 5000, last |-> 999, step |-> 500],
      [below |-> 10000, last |-> 1999, step |-> 1000],
      [below |-> 15000, last |-> 4999, step |-> 5000]>>

\* the template literal `${lo}..${hi}`
Range(lo, hi) == <<lo, "..", hi>>

\* the bounds of a size qualifier lo..hi, both inclusive
Lower(range) == range[1]
Upper(range) == range[3]

RangeOfStep(start, band) == Range(start, start + Bands[band].step - 2)

\* the string pushed by the loop of the band
RangeOf(start, band) == Range(start, start + Bands[band].last)

\* no generateSizeRanges() call has been made
NoCall == [pc |-> "idle", band |-> 0, start |-> 0, ranges |-> <<>>, returned |-> <<>>,
           size |-> -1, cells |-> {}]

RECURSIVE LoopFrom(_, _)
\* the first loop from band on whose condition holds for start (none: 6)
LoopFrom(band, start) ==
    IF band > Len(Bands) THEN band
    ELSE IF start < Bands[band].below THEN band
    ELSE LoopFrom(band + 1, start)

\* the loops have been left behind band - 1 with start: inside a loop, or
\* return ranges
Proceed(g, band) ==
    IF LoopFrom(band, g.start) > Len(Bands)
    THEN [g EXCEPT !.pc = "returned", !.band = 0, !.returned = Append(@, g.ranges)]
    ELSE [g EXCEPT !.pc = "loop", !.band = LoopFrom(band, g.start)]

\* generateSizeRanges() is called: const ranges = []; let start = 0
GenerateSizeRanges ==
    /\ gen.pc \in {"idle", "returned"}
    /\ Len(gen.returned) < MaxGenCalls
    /\ gen' = Proceed([gen EXCEPT !.start = 0, !.ranges = <<>>, !.size = -1,
                                  !.cells = {}], 1)
    /\ UNCHANGED <<tmVars, runVars, dbVars, health, batchSize>>

\* one iteration of the loop the call is in
Push ==
    /\ gen.pc = "loop"
    /\ gen' = Proceed([gen EXCEPT !.ranges = Append(@, RangeOf(gen.start, gen.band)),
                                  !.start = @ + Bands[gen.band].step], gen.band)
    /\ UNCHANGED <<tmVars, runVars, dbVars, health, batchSize>>

\* the ranges last returned are matched against a file of the given size
\* (one lookup for each call)
Lookup(size) ==
    /\ gen.pc = "returned"
    /\ gen.size = -1
    /\ size \in 0..MaxSize
    /\ gen' = [gen EXCEPT !.size = size,
                          !.cells = {i \in 1..Len(gen.ranges) :
                                        /\ Lower(gen.ranges[i]) <= size
                                        /\ size <= Upper(gen.ranges[i])}]
    /\ UNCHANGED <<tmVars, runVars, dbVars, health, batchSize>>

NextRanges ==
    \/ GenerateSizeRanges
    \/ Push
    \/ gen.size = -1 /\ \E size \in 0..MaxSize : Lookup(size)

(***************************************************************************)
(* The state after construction.  Every worker builds its own              *)
(* GitHubService, and that its own TokenManager, from the one configured   *)
(* token list (1..MaxTokens tokens).                                       *)
(*                                                                         *)
(* Spec: one caller issues execute calls one after the other, as a worker  *)
(* run does.  SpecConc: two callers of one worker issue up to MaxCalls     *)
(* overlapping calls each.  SpecWorkers: the same, one caller for each     *)
(* worker, on a pool of one token.                                         *)
(***************************************************************************)
InitPool(n) ==
    /\ tokens = [m \in Workers |-> [k \in 0..(n - 1) |-> InitialToken]]
    /\ currentIndex = [m \in Workers |-> 0]
    /\ rotationLock = [m \in Workers |-> FALSE]
    /\ now = StartTime
    /\ pc = [c \in Callers |-> "idle"]
    /\ frame = [c \in Callers |-> InitFrame]
    /\ lastSel = [m \in Workers |-> -1]
    /\ calls = [c \in Callers |-> 0]
    /\ health = [m \in Workers |-> NoHealthCall]

\* the workers after construction, on a repository table that holds "stored"
\* and with a configured batch size of "size"
InitConfigured(stored, size) ==
    /\ isRunning = [w \in Workers |-> FALSE]
    /\ processedRepos = {}
    /\ rows = [r \in Repos |-> IF r \in stored THEN 1 ELSE 0]
    /\ repoTypes = {}
    /\ runs = [w \in Workers |-> [t \in Triggers |-> NoRun]]
    /\ gen = NoCall
    /\ batchSize = size

InitIdle(stored) == InitConfigured(stored, BatchSize)

\* tables without closed-source rows, developers and activities
InitTables ==
    /\ closedSource = {}
    /\ developers = {}
    /\ activities = {}

Init ==
    /\ \E n \in 1..MaxTokens : InitPool(n)
    /\ worker = [c \in Callers |-> "discovery"]
    /\ InitIdle({})
    /\ InitTables

InitWorkers ==
    /\ InitPool(1)
    /\ worker = [c \in Callers |-> IF c = 1 THEN "discovery" ELSE "activity"]
    /\ InitIdle({})
    /\ InitTables

\* what caller c's pending request or timer can do next
Settle(c) ==
    \/ SleepDone(c)
    \/ \E probe \in ProbeOutcomes : StaleProbeDone(c, probe)
    \/ \E probe \in ProbeOutcomes : ResetProbeDone(c, probe)
    \/ \E probe \in ProbeOutcomes : WaitProbeDone(c, probe)
    \/ RequestOk(c)
    \/ \E a \in 0..MaxTokens : \E error \in RequestErrors(a) : RequestFailed(c, error)
    \/ \E probe \in ProbeOutcomes : PostProbeDone(c, probe)

Next ==
    \/ \E apiType \in Categories : Execute(1, apiType) /\ UNCHANGED calls
    \/ Settle(1)
    \/ \E d \in TickSet : now + d <= MaxTime /\ Tick(d)

Spec == Init /\ [][Next]_vars

NextConc ==
    \/ \E c \in Callers, apiType \in Categories :
           /\ calls[c] < MaxCalls
           /\ calls' = [calls EXCEPT ![c] = @ + 1]
           /\ Execute(c, apiType)
    \/ \E c \in Callers : Settle(c)
    \/ \E d \in TickSet : now + d <= MaxTimeConc /\ Tick(d)

SpecConc == Init /\ [][NextConc]_vars

SpecWorkers == InitWorkers /\ [][NextConc]_vars

(***************************************************************************)
(* SpecLive: the calls of Spec with timers that fire and requests that     *)
(* settle.  No call starts after MaxTimeLive; the clock keeps advancing    *)
(* while a started call sleeps.                                            *)
(***************************************************************************)
\* caller c awaits a sleep that has not ended yet
Asleep(c) ==
    /\ pc[c] \in {"lockWait", "resetWait", "retrySleep"}
    /\ now < frame[c].wakeAt

Advance ==
    \E d \in TickSet :
        /\ now + d <= MaxTimeLive \/ Asleep(1)
        /\ Tick(d)

NextLive ==
    \/ \E apiType \in Categories :
           /\ now <= MaxTimeLive
           /\ Execute(1, apiType)
           /\ UNCHANGED calls
    \/ Settle(1)
    \/ Advance

SpecLive == Init /\ [][NextLive]_vars /\ WF_vars(Settle(1)) /\ WF_vars(Advance)

(***************************************************************************)
(* SpecHealth: up to MaxCalls execute calls of one caller, and             *)
(* getHealthStatus calls on the same TokenManager whose probes interleave  *)
(* with them.                                                              *)
(***************************************************************************)
NextHealth ==
    \/ \E apiType \in Categories :
           /\ calls[1] < MaxCalls
           /\ calls' = [calls EXCEPT ![1] = @ + 1]
           /\ Execute(1, apiType)
    \/ Settle(1)
    \/ \E d \in TickSet : now + d <= MaxTimeHealth /\ Tick(d)
    \/ GetHealthStatus("discovery")
    \/ \E index \in 0..(MaxTokens - 1) : \E probe \in ProbeOutcomes :
           HealthProbeDone("discovery", index, probe)

SpecHealth == Init /\ [][NextHealth]_vars

(***************************************************************************)
(* SpecRuns: the triggers of the two workers and the runs they start, on a *)
(* repository table that is empty or holds one repository at the start.    *)
(***************************************************************************)
InitRuns ==
    /\ InitPool(1)
    /\ worker = [c \in Callers |-> IF c = 1 THEN "discovery" ELSE "activity"]
    /\ \E stored \in {{}, {"a"}} : InitIdle(stored)
    /\ InitTables

NextRuns ==
    \/ \E w \in Workers, t \in Triggers, kind \in {"run", "backfill"},
          source \in {"cron", "manual"} :
           /\ Cardinality({x \in Workers \X Triggers : runs[x[1]][x[2]].pc # "none"})
                  < MaxTriggers
           /\ Trigger(w, t, kind, source)
    \/ \E t \in Triggers : \E result \in SearchResults : SearchDone(t, result)
    \/ \E t \in Triggers : \E outcome \in {"found", "absent", "throw"} :
           DetailDone(t, outcome)
    \/ \E t \in Triggers : \E ok \in BOOLEAN : PersistDone(t, ok)
    \/ \E t \in Triggers : \E ok \in BOOLEAN : PersistTypesDone(t, ok)
    \/ \E t \in Triggers : \E result \in BatchResults(runs["activity"][t]) :
           MayFetch(t, result) /\ FetchDone(t, result)
    \/ \E t \in Triggers : \E response \in BareResponses : RepositoryCallDone(t, response)
    \/ \E t \in Triggers : DelayDone(t)

SpecRuns == InitRuns /\ [][NextRuns]_vars

(***************************************************************************)
(* SpecActivity: the triggers and the runs of the activity worker, on a    *)
(* repository table that holds any of the repositories, some of them       *)
(* marked closed source, and a developer table that is empty or holds one  *)
(* developer.                                                              *)
(***************************************************************************)
InitActivity ==
    /\ InitPool(1)
    /\ worker = [c \in Callers |-> IF c = 1 THEN "discovery" ELSE "activity"]
    /\ \E stored \in SUBSET Repos :
           /\ InitIdle(stored)
           /\ closedSource \in SUBSET stored
    /\ developers \in {{}, {"u"}}
    /\ activities = {}

NextActivity ==
    \/ \E t \in Triggers, kind \in {"run", "backfill"}, source \in {"cron", "manual"} :
           /\ Cardinality({u \in Triggers : runs["activity"][u].pc # "none"})
                  < MaxActivityRuns
           /\ Trigger("activity", t, kind, source)
    \/ \E t \in Triggers : \E result \in BatchResults(runs["activity"][t]) :
           MayFetch(t, result) /\ FetchDone(t, result)
    \/ \E t \in Triggers : \E response \in StatsResponses : RepositoryCallDone(t, response)
    \/ \E t \in Triggers : StatsSleepDone(t)
    \/ \E t \in Triggers : \E contribution \in Contributions :
           ContributorStart(t, contribution)
    \/ \E t \in Triggers : \E outcome \in {"row", "null", "throw"} :
           GetDeveloperDone(t, outcome)
    \/ \E t \in Triggers : \E outcome \in {"found", "absent", "throw"} :
           GetUserDone(t, outcome)
    \/ \E t \in Triggers : \E ok \in BOOLEAN : UpsertDone(t, ok)
    \/ \E t \in Triggers : \E ok \in BOOLEAN : SaveDone(t, ok)
    \/ \E t \in Triggers : DelayDone(t)

SpecActivity == InitActivity /\ [][NextActivity]_vars

(***************************************************************************)
(* SpecPoll: the runs of the activity worker over repositories without     *)
(* contributors, with timers that fire and an upstream that does not       *)
(* answer 202 for ever: whenever the stats request is pending again and    *)
(* again, it is eventually answered with something else.                   *)
(***************************************************************************)
\* the upstream answers the pending stats request with 202
StillComputing(t) ==
    RepositoryCallDone(t, [status |-> 202, count |-> 0])

\* the upstream answers the pending request with a response other than 202
Answered(t) ==
    \E response \in BareResponses : RepositoryCallDone(t, response)

NextPoll ==
    \/ \E t \in Triggers, kind \in {"run", "backfill"}, source \in {"cron", "manual"} :
           /\ Cardinality({u \in Triggers : runs["activity"][u].pc # "none"})
                  < MaxActivityRuns
           /\ Trigger("activity", t, kind, source)
    \/ \E t \in Triggers : \E result \in BatchResults(runs["activity"][t]) :
           MayFetch(t, result) /\ FetchDone(t, result)
    \/ \E t \in Triggers : StillComputing(t)
    \/ \E t \in Triggers : Answered(t)
    \/ \E t \in Triggers : StatsSleepDone(t)
    \/ \E t \in Triggers : DelayDone(t)

SpecPoll ==
    /\ InitActivity
    /\ [][NextPoll]_vars
    /\ \A t \in Triggers : WF_vars(StatsSleepDone(t)) /\ SF_vars(Answered(t))

(***************************************************************************)
(* SpecBatches: a run or a backfill of the activity worker, batch after    *)
(* batch, over repositories without contributors; the batch size is 1 or   *)
(* more, no repository is inserted, and every pending query, request and   *)
(* timer settles.                                                          *)
(***************************************************************************)
InitBatches ==
    /\ InitPool(1)
    /\ worker = [c \in Callers |-> IF c = 1 THEN "discovery" ELSE "activity"]
    /\ \E stored \in SUBSET Repos, size \in 1..BatchSize :
           /\ InitConfigured(stored, size)
           /\ closedSource \in SUBSET stored
    /\ developers = {}
    /\ activities = {}

NextBatches ==
    \/ \E t \in Triggers, kind \in {"run", "backfill"}, source \in {"cron", "manual"} :
           /\ Cardinality({u \in Triggers : runs["activity"][u].pc # "none"})
                  < MaxActivityRuns
           /\ Trigger("activity", t, kind, source)
    \/ \E t \in Triggers : \E result \in BatchResults(runs["activity"][t]) :
           FetchDone(t, result)
    \/ \E t \in Triggers : \E response \in BareResponses : RepositoryCallDone(t, response)
    \/ \E t \in Triggers : DelayDone(t)

SpecBatches == InitBatches /\ [][NextBatches]_vars /\ WF_vars(NextBatches)

\* SpecRanges: the calls of generateSizeRanges of a discovery worker
SpecRanges == InitWorkers /\ [][NextRanges]_vars

(***************************************************************************)
(* Properties.                                                             *)
(***************************************************************************)
\* getBestToken returns to caller c in this step (requestFn is invoked at once)
GotToken(c) == pc'[c] = "request" /\ frame'[c].reqCount # frame[c].reqCount

\* caller c is in an attempt of execute: inside getBestToken or requestFn
InAttempt(c) ==
    pc[c] \in {"lockWait", "probeStale", "probeReset", "resetWait", "probeWait", "request"}

IsPrimaryRateLimit(error) ==
    /\ error.status = 403
    /\ Includes(error.message, <<"rate", "limit">>)
    /\ ~Includes(error.message, <<"secondary", "rate", "limit">>)

IsSecondaryRateLimit(error) ==
    /\ error.status = 403
    /\ Includes(error.message, <<"secondary", "rate", "limit">>)

\* C1: among the concurrent calls on one TokenManager at most one is inside
\* the selection region (rotationLock set by it and not yet cleared by its
\* finally), and the lock is set while a call is inside.
C1_SelectionMutex ==
    \A m \in Workers :
        /\ Cardinality({c \in Callers : worker[c] = m /\ InSelection(c)}) <= 1
        /\ (\E c \in Callers : worker[c] = m /\ InSelection(c)) => rotationLock[m]

\* C1 witness: the requestFn invocations of two calls on one TokenManager overlap
C1_RequestsOverlap ==
    /\ worker[1] = worker[2]
    /\ pc[1] = "request"
    /\ pc[2] = "request"

\* C2: a credential returned by the round-robin scan has remaining > 0 for
\* the category, in the bookkeeping, at the moment it is returned.
C2_ScanReturnHasQuota ==
    [][\A c \in Callers :
          (GotToken(c) /\ frame'[c].path = "scan") =>
              tokens'[worker[c]][frame'[c].tokenId]
                  .rateLimits[frame'[c].apiType].remaining > 0]_vars

\* C2 witness: the scan has returned a credential with quota, past a healthy
\* credential that has none
C2_ScanSkippedExhausted ==
    \E c \in Callers :
        LET toks == tokens[worker[c]]
        IN  /\ pc[c] = "request"
            /\ frame[c].path = "scan"
            /\ toks[frame[c].tokenId].rateLimits[frame[c].apiType].remaining > 0
            /\ \E j \in DOMAIN toks :
                   /\ j # frame[c].tokenId
                   /\ toks[j].isHealthy
                   /\ toks[j].rateLimits[frame[c].apiType].remaining = 0

\* C3: execute invokes requestFn at most N times (N the pool size); when it
\* throws, it throws the error raised by its last attempt; it returns a
\* result only after a requestFn invocation that resolved.
C3_BoundedAttemptsLastError ==
    \A c \in Callers :
        /\ frame[c].reqCount <= NumTokens(worker[c])
        /\ (pc[c] = "done" /\ frame[c].outcome = "throw") =>
               /\ frame[c].thrown # NoError
               /\ frame[c].thrown.at = frame[c].tries - 1
        /\ (pc[c] = "done" /\ frame[c].outcome = "result") =>
               /\ frame[c].reqOk
               /\ frame[c].reqCount >= 1

\* C3 witness: every attempt of a call on a pool of several credentials
\* failed, and execute threw the error of the last one
C3_AllAttemptsFailed ==
    \E c \in Callers :
        /\ NumTokens(worker[c]) > 1
        /\ pc[c] = "done"
        /\ frame[c].outcome = "throw"
        /\ frame[c].reqCount = NumTokens(worker[c])
        /\ frame[c].thrown.at = NumTokens(worker[c]) - 1

\* C4: the quota table and its selection region are one for the whole
\* process: a selection for the discovery worker and one for the activity
\* worker never run at the same time, and both workers see one bookkeeping.
C4_OneRegionForAllWorkers ==
    /\ Cardinality({c \in Callers : InSelection(c)}) <= 1
    /\ \A m1, m2 \in Workers : tokens[m1] = tokens[m2]

\* C5: every credential getBestToken returns, by the scan or by the wait
\* path, is healthy (fewer than 3 consecutive errors) when it is returned.
C5_ReturnedIsHealthy ==
    [][\A c \in Callers :
          GotToken(c) =>
              /\ tokens'[worker[c]][frame'[c].tokenId].isHealthy
              /\ tokens'[worker[c]][frame'[c].tokenId].consecutiveErrors
                     < UnhealthyAfter]_vars

\* C6: when no healthy credential has quota, the credential getBestToken
\* waits for is healthy and has the minimum reset time of all healthy
\* credentials, and the sleep ends at that reset time plus the margin.
C6_WaitsForEarliestHealthy ==
    \A c \in Callers :
        pc[c] = "resetWait" =>
            LET toks == tokens[worker[c]]
                chosen == toks[frame[c].index]
                reset == chosen.rateLimits[frame[c].apiType].reset
            IN  /\ chosen.isHealthy
                /\ \A j \in DOMAIN toks :
                       toks[j].isHealthy =>
                           reset <= toks[j].rateLimits[frame[c].apiType].reset
                /\ frame[c].wakeAt >= reset * 1000 + ResetMarginMs

\* C7: a scan starts at the index right after the credential the previous
\* getBestToken call returned, whichever path that call took.
C7_ScanStartsAfterLastSelected ==
    \A m \in Workers :
        ~rotationLock[m] => currentIndex[m] = (lastSel[m] + 1) % NumTokens(m)

\* C8: after requestFn failed with a primary rate limit on credential c, the
\* retry of the same execute call is issued on another credential whenever
\* another healthy credential has remaining > 0.
C8_RetryRotatesCredential ==
    [][\A c \in Callers :
          LET toks == tokens[worker[c]]
              cat == frame[c].apiType
          IN  ( /\ GotToken(c)
                /\ pc[c] \notin {"idle", "done"}
                /\ IsPrimaryRateLimit(frame[c].lastError)
                /\ \E j \in DOMAIN toks :
                       /\ j # frame[c].tokenId
                       /\ toks[j].isHealthy
                       /\ toks[j].rateLimits[cat].remaining > 0
                       /\ tokens'[worker[c]][j].isHealthy
                       /\ tokens'[worker[c]][j].rateLimits[cat].remaining > 0 )
              => frame'[c].tokenId # frame[c].tokenId]_vars

\* C9: after requestFn failed with a secondary rate limit, execute has slept
\* the 60 s cooldown when it makes its next attempt.
C9_CooldownBeforeRetry ==
    \A c \in Callers :
        ( /\ InAttempt(c)
          /\ frame[c].attempt > 0
          /\ IsSecondaryRateLimit(frame[c].lastError) )
            => frame[c].slept = CooldownMs

\* C10: after the k-th attempt failed with a 5xx, execute sleeps base * k and
\* retries; in particular it never ends by throwing the 5xx of its first
\* attempt without having made a second attempt, whatever the pool size.
C10_ServerErrorIsRetried ==
    \A c \in Callers :
        /\ (pc[c] = "retrySleep" /\ frame[c].lastError.status >= 500) =>
               frame[c].slept = BackoffBaseMs * (frame[c].attempt + 1)
        /\ ( /\ pc[c] = "done"
             /\ frame[c].outcome = "throw"
             /\ frame[c].thrown.status >= 500
             /\ frame[c].thrown.at = 0 ) => frame[c].tries >= 2

\* C11: when requestFn rejects with a 4xx that is not a rate limit signal,
\* execute throws that very error in the same step: no sleep, no further
\* getBestToken call, no further requestFn invocation (exactly one invocation
\* when the failure is that of the first attempt), bookkeeping untouched.
C11_ClientErrorFailsFast ==
    [][\A c \in Callers : \A a \in 0..MaxTokens :
          RequestFailed(c, NotFoundError(a)) =>
              /\ pc'[c] = "done"
              /\ frame'[c].outcome = "throw"
              /\ frame'[c].thrown = NotFoundError(a)
              /\ frame'[c].reqCount = frame[c].reqCount
              /\ frame'[c].tries = frame[c].tries
              /\ (a = 0 => frame'[c].reqCount = 1)
              /\ tokens' = tokens
              /\ currentIndex' = currentIndex]_vars

\* C11 witness: execute has thrown the 404 of its first and only requestFn
\* invocation
C11_ThrewNotFound ==
    \E c \in Callers :
        /\ pc[c] = "done"
        /\ frame[c].outcome = "throw"
        /\ frame[c].thrown = NotFoundError(0)
        /\ frame[c].reqCount = 1
        /\ frame[c].tries = 1

\* caller c is inside getBestToken, suspended
InGetBestToken(c) ==
    pc[c] \in {"lockWait", "probeStale", "probeReset", "resetWait", "probeWait"}

\* execute ended with the error of line 177
ThrewNoHealthy(c) ==
    /\ pc[c] = "done"
    /\ frame[c].outcome = "throw"
    /\ frame[c].thrown.message = <<"No", "healthy", "tokens", "available">>

\* C12: getBestToken throws 'No healthy tokens available' only when no
\* credential is healthy, and every getBestToken call ends: it returns a
\* credential (requestFn is invoked), or no credential is healthy and it throws.
C12_FailsOnlyWithoutHealthy ==
    /\ [](\A c \in Callers :
            ThrewNoHealthy(c) =>
                \A j \in DOMAIN tokens[worker[c]] : ~tokens[worker[c]][j].isHealthy)
    /\ \A c \in Callers :
           InGetBestToken(c) ~> (pc[c] = "request" \/ ThrewNoHealthy(c))

\* C12 witness: with a healthy credential in the pool and none with quota,
\* getBestToken has slept and returned a credential
C12_ReturnedAfterWait ==
    \E c \in Callers :
        /\ pc[c] = "request"
        /\ frame[c].path = "wait"
        /\ \E j \in DOMAIN tokens[worker[c]] : tokens[worker[c]][j].isHealthy

\* C13: when execute returns a result obtained on credential c, c's
\* consecutive-error counter is 0 and c is healthy, whatever the probe that
\* follows the request (line 221) did.
C13_ResultLeavesCredentialClean ==
    [][\A c \in Callers :
          (pc[c] = "postProbe" /\ pc'[c] = "done" /\ frame'[c].outcome = "result") =>
              /\ tokens'[worker[c]][frame[c].tokenId].consecutiveErrors = 0
              /\ tokens'[worker[c]][frame[c].tokenId].isHealthy]_vars

\* C14: a credential the scan returns on the strength of its remaining value
\* has a quota snapshot that a GET /rate_limit response delivered no more than
\* 60 s before the return.
C14_ScanReturnSnapshotFresh ==
    [][\A c \in Callers :
          (GotToken(c) /\ frame'[c].path = "scan") =>
              LET token == tokens'[worker[c]][frame'[c].tokenId]
              IN  /\ token.probedAt > 0
                  /\ now - token.probedAt <= StaleMs]_vars

\* a getBestToken call of caller c starts in this step (line 216)
StartsGetBestToken(c) ==
    \/ pc[c] \in {"idle", "done"} /\ pc'[c] \notin {"idle", "done"}
    \/ pc[c] \in {"request", "retrySleep"} /\ frame'[c].tries = frame[c].tries + 1

\* every credential has remaining = 0 for the category and a reset time in
\* the past
AllSpent(toks, cat, t) ==
    \A j \in DOMAIN toks :
        /\ toks[j].rateLimits[cat].remaining = 0
        /\ toks[j].rateLimits[cat].reset * 1000 < t

\* C15: a getBestToken call that starts when every credential has remaining
\* = 0 and a reset time in the past (and some credential is healthy) issues
\* a refresh of a candidate before any sleep; and when a refresh issued by the
\* scan leaves its candidate with remaining > 0, the call returns that
\* candidate in the same step, without a sleep.
C15_RefreshBeforeSleep ==
    [][\A c \in Callers :
          LET m == worker[c]
          IN  /\ ( /\ StartsGetBestToken(c)
                   /\ AllSpent(tokens[m], frame'[c].apiType, now)
                   /\ \E j \in DOMAIN tokens[m] : tokens[m][j].isHealthy )
                     => pc'[c] \in {"probeStale", "probeReset"}
              /\ ( /\ pc[c] \in {"probeStale", "probeReset"}
                   /\ pc'[c] # pc[c] \/ frame'[c] # frame[c]
                   /\ tokens'[m][frame[c].index].rateLimits[frame[c].apiType]
                          .remaining > 0 )
                     => /\ pc'[c] = "request"
                        /\ frame'[c].tokenId = frame[c].index
                        /\ frame'[c].path = "scan"]_vars

\* C15 witness: the call started with every credential spent and its reset
\* time in the past (the first candidate was not stale, so nothing changed
\* since), and it has a refresh in flight without having slept
C15_RefreshInFlight ==
    \E c \in Callers :
        /\ pc[c] = "probeReset"
        /\ frame[c].slept = 0
        /\ frame[c].i = 0
        /\ ~IsStale(tokens[worker[c]][frame[c].index], frame[c].now)
        /\ AllSpent(tokens[worker[c]], frame[c].apiType, now)

\* C16: a worker has at most one active run; a trigger that arrives while a
\* run of the worker is active (run or runBackfill, from a cron job, startup
\* or an endpoint) is rejected, the rejection touches nothing but the
\* trigger's own record, and a rejected trigger is never executed later.
C16_OneRunPerWorker ==
    /\ [](\A w \in Workers :
            Cardinality({t \in Triggers : Active(runs[w][t])}) <= 1)
    /\ [][\A w \in Workers : \A t \in Triggers :
            /\ (runs[w][t].pc = "rejected") => (runs'[w][t] = runs[w][t])
            /\ (runs[w][t].pc = "none" /\ \E u \in Triggers : Active(runs[w][u]))
                   => runs'[w][t].pc \in {"none", "rejected"}
            /\ (runs[w][t].pc = "none" /\ runs'[w][t].pc = "rejected")
                   => /\ UNCHANGED <<isRunning, processedRepos, rows, repoTypes>>
                      /\ \A v \in Workers : \A u \in Triggers :
                             (v # w \/ u # t) => runs'[v][u] = runs[v][u]]_vars

\* C16 witness: a backfill trigger was rejected while a normal run of the
\* activity worker is active
C16_BackfillRejectedDuringRun ==
    \E t, u \in Triggers :
        /\ runs["activity"][t].pc = "rejected"
        /\ runs["activity"][t].kind = "backfill"
        /\ Active(runs["activity"][u])
        /\ runs["activity"][u].kind = "run"

\* C17: a run that ends, normally or through an error caught at the run
\* boundary, ends with its promise resolved and the worker's flag false; the
\* flag is false whenever no run of the worker is active, so a trigger that
\* arrives after a run has ended is accepted.
C17_RunEndsResolvedAndIdle ==
    /\ [](\A w \in Workers :
            /\ (~\E t \in Triggers : Active(runs[w][t])) => ~isRunning[w]
            /\ \A t \in Triggers :
                   runs[w][t].pc = "ended" => runs[w][t].outcome = "resolved")
    /\ [][\A w \in Workers : \A t \in Triggers :
            /\ (Active(runs[w][t]) /\ ~Active(runs'[w][t]))
                   => /\ runs'[w][t].pc = "ended"
                      /\ runs'[w][t].outcome = "resolved"
                      /\ ~isRunning'[w]
            /\ ( /\ runs[w][t].pc = "none"
                 /\ runs'[w][t].pc # "none"
                 /\ ~\E u \in Triggers : Active(runs[w][u]) )
                   => Active(runs'[w][t])]_vars

\* C17 witness: an activity run ended through an error that reached the
\* catch of run, and the worker is idle again
C17_RunFailedAtBoundary ==
    \E t \in Triggers :
        /\ runs["activity"][t].pc = "ended"
        /\ runs["activity"][t].failed
        /\ runs["activity"][t].outcome = "resolved"
        /\ ~isRunning["activity"]

C19_DedupSetEmptyAtRunStart ==
    [][\A t \in Triggers :
          (runs["discovery"][t].pc = "none" /\ Active(runs'["discovery"][t]))
              => processedRepos' = {}]_vars

\* C20: during a discovery run every key of the DedupSet belongs to a
\* repository that this run has passed to the batch persist, or that is in
\* the reposData of the page being processed.
C20_DedupKeysWereSubmitted ==
    \A t \in Triggers :
        LET rn == runs["discovery"][t]
        IN  Active(rn) =>
                \A r \in processedRepos :
                    \/ rn.submitted[r] > 0
                    \/ \E i \in 1..Len(rn.reposData) : rn.reposData[i] = r

\* C21: when the lookup of one item of a page throws, the page is not
\* aborted: the loop goes on with the next item of the same page that is not
\* in the DedupSet, the items already fetched keep their place in reposData;
\* an item whose detail fetch succeeded is in reposData, and when the item
\* loop is over the whole of reposData is submitted to the batch persist.
C21_DetailFailureKeepsPage ==
    [][\A t \in Triggers :
          LET rn == runs["discovery"][t]
              after == runs'["discovery"][t]
              rest == {i \in (rn.k + 1)..Len(rn.items) : rn.items[i] \notin processedRepos}
          IN  /\ DetailDone(t, "throw") =>
                     /\ rest # {} =>
                            /\ after.pc = "detail"
                            /\ after.k \in rest
                            /\ \A i \in rest : after.k <= i
                            /\ after.items = rn.items
                            /\ after.reposData = rn.reposData
                            /\ <<after.strategy, after.cell, after.page>>
                                   = <<rn.strategy, rn.cell, rn.page>>
                     /\ (rest = {} /\ rn.reposData # <<>>) =>
                            /\ after.pc = "persist"
                            /\ after.reposData = rn.reposData
              /\ (DetailDone(t, "found") /\ rn.strategy = "code") =>
                     /\ after.pc \in {"detail", "persist"}
                     /\ after.reposData = Append(rn.reposData, rn.items[rn.k])
              /\ (rn.pc = "detail" /\ after.pc = "persist") =>
                     \A r \in Repos :
                         after.submitted[r]
                             = Capped(rn.submitted[r] + Occurrences(after.reposData, r))]_vars

\* C21 witness: in a page of the code search the detail fetch of the first
\* item has thrown, that of the second has succeeded, and the second item is
\* being submitted to the batch persist
C21_PersistAfterDetailThrew ==
    \E t \in Triggers :
        LET rn == runs["discovery"][t]
        IN  /\ rn.pc = "persist"
            /\ rn.strategy = "code"
            /\ rn.threw
            /\ Len(rn.items) = 2
            /\ rn.reposData = <<rn.items[2]>>
            /\ rn.items[1] \notin processedRepos

\* C22: within one search cell the pages are requested in increasing order
\* from page 1, one by one, never beyond the page limit, and page p + 1 is
\* requested only when the request of page p returned a full page.
C22_PagesInOrder ==
    /\ [](\A t \in Triggers :
            runs["discovery"][t].pc = "search" =>
                runs["discovery"][t].page \in 1..MaxPage)
    /\ [][\A t \in Triggers :
            LET rn == runs["discovery"][t]
                after == runs'["discovery"][t]
                issued == /\ after.pc = "search"
                          /\ \/ rn.pc # "search"
                             \/ <<after.strategy, after.cell, after.page>>
                                    # <<rn.strategy, rn.cell, rn.page>>
                sameCell == /\ rn.pc # "none"
                            /\ <<after.strategy, after.cell>> = <<rn.strategy, rn.cell>>
            IN  issued =>
                    IF sameCell
                    THEN /\ after.page = rn.page + 1
                         /\ rn.pc # "search" => Len(rn.items) = PerPage
                         /\ \A result \in SearchResults :
                                SearchDone(t, result) =>
                                    result.ok /\ Len(result.items) = PerPage
                    ELSE after.page = 1]_vars

\* C22 witness: the last page the limit allows is requested in a cell of the
\* code search, the page before it having been full
C22_LastPageRequested ==
    \E t \in Triggers :
        /\ runs["discovery"][t].pc = "search"
        /\ runs["discovery"][t].strategy = "code"
        /\ runs["discovery"][t].page = MaxPage
        /\ MaxPage > 1

\* the place of a search cell in the order of run(): the cells of the code
\* search, those of the repository search, the trending search
CellRank(rn) ==
    IF rn.strategy = "code" THEN rn.cell
    ELSE IF rn.strategy = "repo" THEN NumCells + rn.cell
    ELSE NumCells + NumKeywords + 1

\* C23: a rejected search request ends only its cell: the next request of
\* the run is page 1 of the next cell in the order of run() (the trending
\* search after the last keyword, the end of the run after the trending
\* search); a discovery run visits the cells one after the other from the
\* first, and ends only after the trending search, never as failed.
C23_SearchFailureEndsOnlyCell ==
    [][\A t \in Triggers :
          LET rn == runs["discovery"][t]
              after == runs'["discovery"][t]
          IN  /\ SearchDone(t, [ok |-> FALSE, items |-> <<>>]) =>
                     IF rn.strategy = "trending"
                     THEN after.pc = "ended" /\ ~after.failed
                     ELSE /\ after.pc = "search"
                          /\ after.page = 1
                          /\ CellRank(after) = CellRank(rn) + 1
              /\ (rn.pc = "none" /\ Active(after)) => CellRank(after) = 1
              /\ (Active(rn) /\ Active(after)) =>
                     CellRank(after) \in {CellRank(rn), CellRank(rn) + 1}
              /\ (Active(rn) /\ ~Active(after)) =>
                     /\ rn.strategy = "trending"
                     /\ after.pc = "ended"
                     /\ ~after.failed]_vars

\* C23 witness: a discovery run in which a search request was rejected has
\* ended after a later search delivered items
C23_RunEndedAfterFailedSearch ==
    \E t \in Triggers :
        /\ runs["discovery"][t].pc = "ended"
        /\ runs["discovery"][t].searchFailed
        /\ ~runs["discovery"][t].failed
        /\ \E r \in Repos : runs["discovery"][t].seen[r] > 0

\* C24: when the upstream answers 404 to the stats request of a repository,
\* the activity worker marks that repository closed source: the call of
\* markRepositoryClosedSource is what the run awaits next, and once it has
\* settled well the repository's isClosedSource is true.
C24_NotFoundMarksClosedSource ==
    [][\A t \in Triggers :
          LET rn == runs["activity"][t]
              after == runs'["activity"][t]
          IN  /\ (rn.pc = "stats" /\ RepositoryCallDone(t, [status |-> 404, count |-> 0]))
                     => /\ after.pc = "mark"
                        /\ after.k = rn.k
              /\ (rn.pc = "mark" /\ RepositoryCallDone(t, [status |-> 200, count |-> 0]))
                     => rn.items[rn.k] \in closedSource']_vars

\* C25: no stats request is in flight or about to be re-issued, in a normal
\* run or in a backfill run, for a repository whose isClosedSource is true.
C25_NoFetchForClosedSource ==
    \A t \in Triggers :
        LET rn == runs["activity"][t]
        IN  rn.pc \in {"stats", "statsSleep"} => rn.items[rn.k] \notin closedSource

\* the week entries of a contribution that have commits and a stamp after
\* reference
Recent(weeks, reference) ==
    SelectSeq(weeks, LAMBDA entry : entry.c # 0 /\ entry.w > reference)

\* processContributor is between its first await and the settling of
\* bulkCreateActivities
InContributor(rn) == rn.pc \in {"getDeveloper", "getUser", "upsert", "save"}

\* the filter and what is stored: referenceTime is the time of the batch start
\* minus 26 weeks; what a contribution carries towards bulkCreateActivities
\* is exactly its entries with commits # 0 and a stamp > referenceTime, in
\* their order, all the way to the submission; every Activities row has
\* commits # 0 and a date after the reference time of its batch
OnlyRecentSubmitted ==
    /\ [](\A a \in activities : a.commits # 0 /\ a.date > ReferenceTime(now))
    /\ [](\A t \in Triggers :
            LET rn == runs["activity"][t]
            IN  InContributor(rn) =>
                    /\ rn.referenceTime = (now \div 1000) - 26 * 604800
                    /\ rn.activitiesData = Recent(rn.weeks, rn.referenceTime)
                    /\ rn.activitiesData # <<>>)
    /\ [][\A t \in Triggers :
            LET rn == runs["activity"][t]
            IN  SaveDone(t, TRUE) =>
                    \A i \in 1..Len(rn.activitiesData) :
                        \E a \in activities' :
                            /\ a.repositoryId = rn.items[rn.k]
                            /\ a.developerId = rn.username
                            /\ a.date = rn.activitiesData[i].w]_vars

\* C26: an ActivityRecord is submitted for a week entry if and only if it has
\* commits # 0 and a stamp > referenceTime: besides the filter, a
\* contribution that is being processed for such entries always reaches
\* bulkCreateActivities with them.
C26_SubmittedIffRecent ==
    /\ OnlyRecentSubmitted
    /\ [][\A t \in Triggers :
            LET rn == runs["activity"][t]
                after == runs'["activity"][t]
            IN  (rn.pc \in {"getDeveloper", "getUser", "upsert"} /\ after # rn)
                    => InContributor(after)]_vars

\* C26 (amended): an ActivityRecord is submitted for a week entry only if it
\* has commits # 0 and a stamp > referenceTime (an entry at referenceTime is
\* excluded); and all such entries of a contribution are submitted when the
\* developer's record was found or has been created.
C26_SubmittedOnlyRecent ==
    /\ OnlyRecentSubmitted
    /\ [][\A t \in Triggers :
            (GetDeveloperDone(t, "row") \/ UpsertDone(t, TRUE))
                => runs'["activity"][t].pc = "save"]_vars

\* C26 witness: of a contribution with a week at referenceTime and a week
\* after it, both with commits, only the later one is being submitted
C26_ReferenceWeekExcluded ==
    \E t \in Triggers :
        LET rn == runs["activity"][t]
        IN  /\ rn.pc = "save"
            /\ rn.weeks = <<[w |-> rn.referenceTime, c |-> 1],
                            [w |-> rn.referenceTime + 1, c |-> 1]>>
            /\ rn.activitiesData = <<[w |-> rn.referenceTime + 1, c |-> 1]>>

\* the run is inside processBatch
InBatch(rn) ==
    rn.pc \in {"stats", "statsSleep", "mark", "contributor", "getDeveloper", "getUser",
               "upsert", "save"}

\* C27: processBatch attempts the repositories of the batch one after the
\* other, whatever happened to the earlier ones: a failed repository is
\* counted as an error and followed by the attempt of the next one; each
\* attempted repository is counted once, as processed or as an error; and
\* processBatch returns only after the last repository, with
\* processedCount + errorCount equal to the size of the batch.
C27_BatchAttemptsEveryRepository ==
    /\ [](\A t \in Triggers :
            LET rn == runs["activity"][t]
            IN  (InBatch(rn) /\ rn.pc # "mark") =>
                    /\ rn.k \in 1..Len(rn.items)
                    /\ rn.processedCount + rn.errorCount = rn.k - 1)
    /\ [][\A t \in Triggers :
            LET rn == runs["activity"][t]
                after == runs'["activity"][t]
            IN  /\ (rn.pc = "fetch" /\ InBatch(after)) =>
                       after.pc = "stats" /\ after.k = 1
                /\ (InBatch(rn) /\ InBatch(after)) =>
                       /\ after.items = rn.items
                       /\ after.k \in {rn.k, rn.k + 1}
                /\ (InBatch(rn) /\ ~InBatch(after)) =>
                       /\ after.pc = "delay"
                       /\ rn.k = Len(rn.items)
                       /\ after.processedCount + after.errorCount = Len(rn.items)
                /\ (rn.pc = "stats" /\ RepositoryCallDone(t, [status |-> 500, count |-> 0]))
                       => /\ after.errorCount = rn.errorCount + 1
                          /\ after.processedCount = rn.processedCount
                          /\ rn.k < Len(rn.items) =>
                                 after.pc = "stats" /\ after.k = rn.k + 1]_vars

\* C27 witness: the first repository of a batch of two failed (it is the one
\* error counted) and the stats request of the second is in flight
C27_SecondAttemptedAfterFailure ==
    \E t \in Triggers :
        LET rn == runs["activity"][t]
        IN  /\ rn.pc = "stats"
            /\ Len(rn.items) = 2
            /\ rn.k = 2
            /\ rn.errorCount = 1
            /\ rn.processedCount = 0

\* C28: when the profile fetch of a contributor without a DeveloperRecord
\* fails, no activity of that contributor is persisted, the next contribution
\* of the repository is processed, and the failure is counted: errorCount of
\* the batch (the total the run reports, when the batch ends with it) is one
\* more than before.
C28_ProfileFailureCounted ==
    [][\A t \in Triggers :
          LET rn == runs["activity"][t]
              after == runs'["activity"][t]
          IN  GetUserDone(t, "throw") =>
                  /\ activities' = activities
                  /\ rn.j < rn.count =>
                         /\ after.pc = "contributor"
                         /\ after.j = rn.j + 1
                         /\ after.k = rn.k
                  /\ IF after.pc = "delay"
                     THEN after.totalErrors = rn.totalErrors + rn.errorCount + 1
                     ELSE after.errorCount = rn.errorCount + 1]_vars

\* width and stride of the band in which a range starts
WidthAt(lo) ==
    IF lo < 1000 THEN 200 ELSE IF lo < 3000 THEN 500 ELSE IF lo < 5000 THEN 1000
    ELSE IF lo < 10000 THEN 2000 ELSE 5000

StrideAt(lo) ==
    IF lo < 1000 THEN 150 ELSE IF lo < 3000 THEN 250 ELSE IF lo < 5000 THEN 500
    ELSE IF lo < 10000 THEN 1000 ELSE 5000

\* C29: every call of generateSizeRanges returns the same sequence; it
\* starts with "0..199", "150..349", "300..499", ... (width 200, stride 150)
\* up to the band boundary at 1000; every range has the width, and is
\* followed at the stride, of the band its start falls in (500/250 from
\* 1000, 1000/500 from 3000, 2000/1000 from 5000, 5000/5000 from 10000); the
\* sequence ends with the first start that is not below 15000.
C29_RangesReproducible ==
    \A n \in 1..Len(gen.returned) :
        LET ranges == gen.returned[n]
        IN  /\ ranges = gen.returned[1]
            /\ SubSeq(ranges, 1, 7)
                   = <<Range(0, 199), Range(150, 349), Range(300, 499), Range(450, 649),
                       Range(600, 799), Range(750, 949), Range(900, 1099)>>
            /\ Lower(ranges[8]) >= 1000
            /\ \A i \in 1..Len(ranges) :
                   /\ ranges[i][2] = ".."
                   /\ Upper(ranges[i]) = Lower(ranges[i]) + WidthAt(Lower(ranges[i])) - 1
                   /\ Lower(ranges[i]) < 15000
                   /\ IF i < Len(ranges)
                      THEN Lower(ranges[i + 1])
                               = Lower(ranges[i]) + StrideAt(Lower(ranges[i]))
                      ELSE Lower(ranges[i]) + StrideAt(Lower(ranges[i])) >= 15000

\* C29 witness: two calls have returned, with ranges of every band
C29_ReturnedTwice ==
    /\ Len(gen.returned) = 2
    /\ \A b \in 1..Len(Bands) :
           \E i \in 1..Len(gen.returned[2]) :
               /\ Lower(gen.returned[2][i]) < Bands[b].below
               /\ b > 1 => Lower(gen.returned[2][i]) >= Bands[b - 1].below

\* C30: in the returned sequence the lower bounds and the upper bounds are
\* strictly increasing and a range starts no later than right after the end
\* of the one before it, across band boundaries too; the first range starts
\* at 0 and every size from 0 to 15000 lies in at least one range.
C30_RangesCoverSizes ==
    /\ \A n \in 1..Len(gen.returned) :
           LET ranges == gen.returned[n]
           IN  /\ Lower(ranges[1]) = 0
               /\ Upper(ranges[Len(ranges)]) >= 15000
               /\ \A i \in 1..(Len(ranges) - 1) :
                      /\ Lower(ranges[i]) < Lower(ranges[i + 1])
                      /\ Upper(ranges[i]) < Upper(ranges[i + 1])
                      /\ Lower(ranges[i + 1]) <= Upper(ranges[i]) + 1
    /\ gen.size # -1 => gen.cells # {}

\* C30 witness: sizes at the two sides of a band boundary, and the largest
\* size, have been looked up and found in a range
C30_BoundarySizeCovered ==
    /\ gen.size \in {999, 1000, 4999, 5000, MaxSize}
    /\ gen.cells # {}

\* C31: in every reachable state, for every credential of a TokenManager,
\* isHealthy is false exactly when consecutiveErrors >= 3, however the probes
\* of a selection, of a completed request and of getHealthStatus interleave;
\* the statuses getHealthStatus returns agree with it.
C31_UnhealthyIffThreeErrors ==
    \A m \in Workers :
        /\ \A i \in DOMAIN tokens[m] :
               ~tokens[m][i].isHealthy <=> tokens[m][i].consecutiveErrors >= UnhealthyAfter
        /\ \A i \in DOMAIN health[m].statuses :
               ~health[m].statuses[i].isHealthy
                   <=> health[m].statuses[i].consecutiveErrors >= UnhealthyAfter

\* C31 witness: while an execute call awaits one of its probes or its
\* request, a getHealthStatus probe has brought a credential to three errors
\* and reported it unhealthy
C31_HealthProbeMarkedUnhealthy ==
    \E i \in DOMAIN health["discovery"].statuses :
        /\ health["discovery"].statuses[i] =
               [isHealthy |-> FALSE, consecutiveErrors |-> UnhealthyAfter]
        /\ ~tokens["discovery"][i].isHealthy
        /\ health["discovery"].pending # {}
        /\ pc[1] \in {"probeStale", "probeReset", "probeWait", "request", "postProbe"}

\* caller c issues a refresh probe for token i of its TokenManager in this step
IssuesProbe(c, i) ==
    /\ <<pc[c], frame[c].index, frame[c].tries>> # <<pc'[c], frame'[c].index, frame'[c].tries>>
    /\ \/ pc'[c] \in {"probeStale", "probeReset", "probeWait"} /\ frame'[c].index = i
       \/ pc'[c] = "postProbe" /\ frame'[c].tokenId = i

\* C32: once a credential is marked unhealthy, no step of a getBestToken or
\* execute call on its TokenManager issues a refresh probe for it, and none
\* makes it healthy again.
C32_UnhealthyNeverProbed ==
    [][\A m \in Workers : \A i \in DOMAIN tokens[m] :
          ~tokens[m][i].isHealthy =>
              /\ ~tokens'[m][i].isHealthy
              /\ \A c \in Callers : worker[c] = m => ~IssuesProbe(c, i)]_vars

\* run t of the activity worker is inside getContributorsActivity
Polling(t) == runs["activity"][t].pc \in {"stats", "statsSleep"}

\* C33: getContributorsActivity answers every 202 by a sleep of 2 s and the
\* same stats request again, however many 202 answers came before, and it
\* returns or throws only on an answer other than 202 (so it never returns
\* when every answer is 202); when the upstream eventually answers something
\* else, the call ends.
C33_PollsUntilNot202 ==
    /\ [][\A t \in Triggers :
            /\ StillComputing(t) =>
                   /\ runs'["activity"][t].pc = "statsSleep"
                   /\ runs'["activity"][t].sleepMs = StatsDelayMs
                   /\ runs'["activity"][t].k = runs["activity"][t].k
                   /\ runs'["activity"][t].items = runs["activity"][t].items
            /\ StatsSleepDone(t) =>
                   /\ runs'["activity"][t].pc = "stats"
                   /\ runs'["activity"][t].k = runs["activity"][t].k
                   /\ runs'["activity"][t].items = runs["activity"][t].items
            /\ (Polling(t) /\ (~Polling(t))') => Answered(t)
            /\ (Polling(t) /\ runs'["activity"][t].k # runs["activity"][t].k)
                   => Answered(t)]_vars
    /\ \A t \in Triggers : Polling(t) ~> ~Polling(t)

\* C33 witness: the stats request of a repository is pending again after
\* MaxPolls answers of 202
C33_ReissuedAfter202 ==
    \E t \in Triggers :
        /\ runs["activity"][t].pc = "stats"
        /\ runs["activity"][t].polls = MaxPolls
        /\ runs["activity"][t].polls > 0

\* call t of the activity worker is a runBackfill() call in progress
Backfilling(t) == runs["activity"][t].kind = "backfill" /\ Active(runs["activity"][t])

\* call t of the activity worker has ended and the running flag is cleared
Over(t) == runs["activity"][t].pc = "ended" /\ ~isRunning["activity"]

\* C34: runBackfill eventually terminates and clears the running flag, for
\* every finite repository table, also one that holds an open-source
\* repository which never yields an activity row.
C34_BackfillTerminates ==
    \A t \in Triggers : Backfilling(t) ~> Over(t)

\* call t of the activity worker is a run() call in progress
Running(t) == runs["activity"][t].kind = "run" /\ Active(runs["activity"][t])

\* call t was a run() call that ended at an empty page, and no later call
\* has started: what the call did is still on record
RanToEmptyPage(t) ==
    /\ runs["activity"][t].pc = "ended"
    /\ runs["activity"][t].kind = "run"
    /\ ~runs["activity"][t].failed
    /\ \A u \in Triggers : u > t => runs["activity"][u].pc = "none"

\* processRepository was called exactly once for every repository of the ecosystem
EachProcessedOnce(t) ==
    \A r \in Repos :
        runs["activity"][t].attempted[r] = IF r \in Ecosystem THEN 1 ELSE 0

\* a run() call requests the pages at offsets 0, B, 2B, ... and ends at the
\* first empty page or at a rejected query
PagesInOffsetOrder(t) ==
    LET rn == runs["activity"][t]
        after == runs'["activity"][t]
    IN  after.kind = "run" =>
            /\ (rn.pc = "none" /\ after.pc = "fetch") => after.offset = 0
            /\ (rn.pc = "fetch" /\ after.pc = "stats") =>
                   /\ after.offset = rn.offset
                   /\ rn.offset < Cardinality(Ecosystem)
                   /\ Len(after.items) = Min(batchSize, Cardinality(Ecosystem) - rn.offset)
            /\ (rn.pc # "delay" /\ after.pc = "delay") =>
                   after.offset = rn.offset + batchSize
            /\ (rn.pc = "delay" /\ after.pc = "fetch") => after.offset = rn.offset
            /\ (rn.pc # "ended" /\ after.pc = "ended") =>
                   /\ rn.pc = "fetch"
                   /\ after.failed \/ rn.offset >= Cardinality(Ecosystem)

InWaitPath(c) == pc[c] \in {"resetWait", "probeWait"}

\* C36: while a getBestToken call sleeps in the all-exhausted wait path, and
\* until the refresh that follows the sleep has settled, rotationLock stays
\* set and no other getBestToken call on that TokenManager returns a
\* credential, whatever its category and whatever quota is available.
C36_LockHeldThroughWait ==
    /\ [](\A c \in Callers : InWaitPath(c) => rotationLock[worker[c]])
    /\ [][\A c, d \in Callers :
              (c # d /\ worker[c] = worker[d] /\ InWaitPath(c)) =>
                  /\ ~GotToken(d)
                  /\ ~InSelection(d) /\ (~InSelection(d))']_vars

\* C36 witness: a call for "core" sleeps in the wait path while a call for
\* "search" polls the lock, although a healthy credential has search quota
C36_SearchBlockedByCoreWait ==
    \E c, d \in Callers :
        /\ worker[c] = worker[d]
        /\ pc[c] = "resetWait"
        /\ frame[c].apiType = "core"
        /\ pc[d] = "lockWait"
        /\ frame[d].apiType = "search"
        /\ now >= frame[d].wakeAt
        /\ \E i \in DOMAIN tokens[worker[d]] :
               /\ tokens[worker[d]][i].isHealthy
               /\ tokens[worker[d]][i].rateLimits["search"].remaining > 0

\* C37: every exit of getBestToken (scan return, wait-path return, the 'No
\* healthy tokens available' throw) clears rotationLock: in every state in
\* which no selection is in progress on a TokenManager its rotationLock is
\* false, so a caller that polls the lock is not held up by a selection that
\* has finished.
C37_LockFreeWhenNoSelection ==
    \A m \in Workers :
        (~\E c \in Callers : worker[c] = m /\ InSelection(c)) => ~rotationLock[m]

\* C37 witness: a getBestToken call has thrown 'No healthy tokens available'
\* and the lock is free
C37_LockFreeAfterThrow ==
    \E c \in Callers :
        /\ pc[c] = "done"
        /\ frame[c].outcome = "throw"
        /\ frame[c].thrown.message = <<"No", "healthy", "tokens", "available">>
        /\ ~rotationLock[worker[c]]
        /\ \A d \in Callers : ~InSelection(d)

\* the quota, health and error bookkeeping of a token
Bookkeeping(token) == <<token.rateLimits, token.isHealthy, token.consecutiveErrors>>

\* a quota probe for token i of TokenManager m is in flight
ProbePending(m, i) ==
    \/ i \in health[m].pending
    \/ \E c \in Callers :
           /\ worker[c] = m
           /\ \/ pc[c] \in {"probeStale", "probeReset", "probeWait"} /\ frame[c].index = i
              \/ pc[c] = "postProbe" /\ frame[c].tokenId = i

\* C38: remaining, reset, isHealthy and consecutiveErrors of a credential
\* change only in a step in which a live quota probe for it settles: a step
\* that starts execute and selects a credential, and a step in which
\* requestFn resolves or rejects (a rate-limit failure included, with the
\* selection of the retry), leave them as they are; remaining is never
\* negative.
C38_QuotaOnlyFromProbe ==
    /\ [](\A m \in Workers : \A i \in DOMAIN tokens[m] : \A cat \in Categories :
              tokens[m][i].rateLimits[cat].remaining >= 0)
    /\ [][\A m \in Workers : \A i \in DOMAIN tokens[m] :
              Bookkeeping(tokens'[m][i]) # Bookkeeping(tokens[m][i]) =>
                  /\ ProbePending(m, i)
                  /\ tokens'[m][i].consecutiveErrors = 0 =>
                         tokens'[m][i].probedAt = now]_vars
    /\ [][\A c \in Callers :
              (pc[c] \in {"idle", "done", "request"} /\ frame'[c] # frame[c]) =>
                  \A i \in DOMAIN tokens[worker[c]] :
                      Bookkeeping(tokens'[worker[c]][i]) = Bookkeeping(tokens[worker[c]][i])]_vars

\* C38 witness: requestFn failed with a rate-limit error on the only
\* credential, whose probe had failed before: execute has thrown and the
\* credential still has the quota the constructor gave it
C38_RateLimitLeavesQuota ==
    \E c \in Callers :
        /\ NumTokens(worker[c]) = 1
        /\ pc[c] = "done"
        /\ frame[c].outcome = "throw"
        /\ IsPrimaryRateLimit(frame[c].thrown)
        /\ tokens[worker[c]][0].probedAt = 0
        /\ tokens[worker[c]][0].consecutiveErrors = 1
        /\ tokens[worker[c]][0].rateLimits = InitialToken.rateLimits

\* the keys of the repositories of the page that run rn has pushed to reposData
PageKeys(rn) == {rn.reposData[i] : i \in 1..Len(rn.reposData)}

\* processCodeSearchResults / processRepoSearchResults of run t returns in
\* this step
PageReturns(t) ==
    /\ runs["discovery"][t].pc \in {"persist", "persistTypes"}
    /\ runs'["discovery"][t].pc \notin {"persist", "persistTypes"}

\* the strategy counts the page in this step: in its totalFound, or, when the
\* step ends the run, in the total that run() logs
CountsPage(rn, after) ==
    IF after.pc = "ended"
    THEN after.total = Total(rn.totalFound) + Len(rn.reposData)
    ELSE after.totalFound = [rn.totalFound EXCEPT ![rn.strategy] = @ + Len(rn.reposData)]

\* C39: when bulkCreateRepositories fails for a page, the keys of the page
\* stay in processedRepos, no row is written, and the page is counted in the
\* found total of its strategy when its processing returns; a repository
\* whose key is in processedRepos is never pushed to reposData again nor
\* submitted again, by any run of the worker, and no lookup is made for it:
\* its later occurrences are skipped.
C39_FailedPageStaysDeduped ==
    /\ [][\A t \in Triggers :
              PersistDone(t, FALSE) =>
                  /\ PageKeys(runs["discovery"][t]) # {}
                  /\ PageKeys(runs["discovery"][t]) \subseteq processedRepos'
                  /\ rows' = rows]_vars
    /\ [][\A t \in Triggers :
              PageReturns(t) =>
                  CountsPage(runs["discovery"][t], runs'["discovery"][t])]_vars
    /\ [][\A t \in Triggers : \A r \in processedRepos :
              LET rn == runs["discovery"][t]
                  after == runs'["discovery"][t]
              IN  /\ r \in processedRepos'
                  /\ Occurrences(after.reposData, r) <= Occurrences(rn.reposData, r)
                  /\ after.submitted[r] > rn.submitted[r] =>
                         /\ rn.pc = "detail" /\ after.pc = "persist"
                         /\ Occurrences(rn.reposData, r) = 1]_vars
    /\ [](\A t \in Triggers :
              LET rn == runs["discovery"][t]
              IN  rn.pc = "detail" => rn.items[rn.k] \notin processedRepos)

\* the second cell of the code search lists r first, after the persist of
\* the page that held r has failed: r is skipped, the lookup of the next
\* item is under way, and r was counted and submitted once
C39_SkippedAfterFailedPersist ==
    \E t \in Triggers : \E r \in Repos :
        LET rn == runs["discovery"][t]
        IN  /\ rn.pc = "detail" /\ rn.strategy = "code" /\ rn.cell = 2
            /\ rn.k = 2 /\ rn.items[1] = r
            /\ rn.reposData = <<>>
            /\ r \in processedRepos /\ rows[r] = 0
            /\ rn.submitted[r] = 1 /\ rn.totalFound["code"] >= 1

\* the types of the queries of the code search
Types == {CellType(cell) : cell \in 1..NumCells}

\* the { repoId, type } pairs that are in the repo type table or are being
\* passed to bulkCreateRepoTypes
TagsSubmitted ==
    repoTypes \cup UNION {IF runs["discovery"][t].pc = "persistTypes"
                          THEN repoTypesData(runs["discovery"][t])
                          ELSE {} : t \in Triggers}

\* the code search of run t pushes r, and with it the pair of r and the
\* query's type, in this step
PushesTag(t, r) ==
    /\ runs["discovery"][t].strategy = "code"
    /\ Occurrences(runs'["discovery"][t].reposData, r)
           > Occurrences(runs["discovery"][t].reposData, r)

\* the first page of the query of rn is the first result of the run that
\* lists r: no earlier query has reached r
FirstQuery(rn, r) == rn.seen[r] = Occurrences(rn.items, r)

\* C40 as amended: at most one (repoId, type) pair per repository is in the
\* repo type table or on its way to it; a pair is pushed for a repository
\* only in the step that adds its key to processedRepos, with the type of
\* the query whose lookup returned the details, and no key ever leaves the
\* set: every match after that one is skipped.
C40_AtMostOneTagPerRepo ==
    /\ [](\A r \in Repos :
              Cardinality({type \in Types : <<r, type>> \in TagsSubmitted}) <= 1)
    /\ [](\A t \in Triggers :
              runs["discovery"][t].pc = "persistTypes" =>
                  /\ PageKeys(runs["discovery"][t]) \subseteq processedRepos
                  /\ \A r \in PageKeys(runs["discovery"][t]) :
                         Occurrences(runs["discovery"][t].reposData, r) = 1)
    /\ [][\A t \in Triggers : \A r \in Repos :
              PushesTag(t, r) =>
                  /\ r \notin processedRepos /\ r \in processedRepos'
                  /\ r = runs["discovery"][t].items[runs["discovery"][t].k]
                  /\ <<r, CellType(runs["discovery"][t].cell)>>
                         \in repoTypesData(runs'["discovery"][t])]_vars
    /\ [][processedRepos \subseteq processedRepos']_vars

\* r was tagged "anchor" by the first cell; the second cell, whose query has
\* the type "native", lists r first and skips it: the table holds the one
\* pair of r
C40_SecondQuerySkipsTagged ==
    \E t \in Triggers : \E r \in Repos :
        LET rn == runs["discovery"][t]
        IN  /\ rn.pc = "detail" /\ rn.strategy = "code" /\ rn.cell = 2
            /\ rn.k = 2 /\ rn.items[1] = r
            /\ CellType(1) # CellType(2)
            /\ <<r, CellType(1)>> \in repoTypes
            /\ <<r, CellType(2)>> \notin TagsSubmitted

\* C40 as stated: a repository gets its pair only from the first query
\* that reached it: a repository that the first page of a query has pushed,
\* with the query's type, was listed by no earlier query of the run.
C40_TagOnlyForFirstQuery ==
    \A t \in Triggers :
        LET rn == runs["discovery"][t]
        IN  rn.strategy = "code" /\ rn.page = 1 =>
                \A r \in PageKeys(rn) : FirstQuery(rn, r)
====
